---- MODULE Spec2Model ----
(***************************************************************************)
(* Repository-traversal engine of the GitHub organisation scanner          *)
(* (src/fr10.py, src/main.py, src/prototype.py).                           *)
(*                                                                         *)
(* The module holds one state machine per component:                      *)
(*   SpecRL       handle_rate_limiting                                     *)
(*   SpecListing  get_all_org_repos and get_repository_branches            *)
(*   SpecLimit    get_all_org_repos with a limit, then without one         *)
(*   SpecFile     find_file_in_branch, get_python_file_content,            *)
(*                get_python_files_alternative (root request)              *)
(*   SpecTree     get_branch_tree                                          *)
(*   SpecParse    parse_requirement_line and the requirements loop of      *)
(*                find_python_project_files                                *)
(*   SpecImport   extract_imports_from_python_content                       *)
(*   SpecAgg      find_python_project_files of fr10.py, one repository      *)
(*   SpecSteady   the same, for a repository of several branches on an API  *)
(*                that answers every request at once                        *)
(*   SpecProto    find_python_project_files of prototype.py                 *)
(* Each specification drives the variables of its component and leaves    *)
(* the others at their idle values.                                        *)
(***************************************************************************)
EXTENDS Integers, Sequences, FiniteSets, TLC

VARIABLES
    \* ---- handle_rate_limiting (one call)
    response,      \* the response handed to handle_rate_limiting
    now,           \* time.time(), in ticks of 1/Resolution second
    rl_pc,         \* "idle" | "call" | "returned" | "raised"
    rl_ret,        \* the value returned (TRUE = retry the same request)
    rl_slept,      \* ticks spent in time.sleep by the call
    \* ---- get_all_org_repos, get_repository_branches
    fn,            \* the listing function running
    limit,         \* the limit argument of get_all_org_repos
    l_pc,          \* "idle" | "loop" | "done" | "failed" (None) | "raised"
    endpoint,      \* index in endpoints of endpoint_base
    page,          \* the page counter
    all_repos,     \* the repositories collected (the value returned)
    all_branches,  \* the branches collected (the value returned)
    served,        \* the API: the page it holds under each (endpoint, page) asked for
    pauses,        \* rate-limit pauses so far
    reqlog,        \* the requests issued by the running call, with their responses
    call,          \* 1: the call under test; 2: the same listing taken without a limit
    first_limit,   \* the limit of call 1
    first_result,  \* the list call 1 returned
    \* ---- find_file_in_branch, get_python_file_content,
    \*      get_python_files_alternative (one call)
    f_fn,          \* the function called
    f_pc,          \* "idle" | "call" | "returned" | "raised"
    f_result,      \* the value returned
    f_log,         \* the requests issued by the call, with their responses
    remote,        \* the API: what it holds for the file and the directories asked for
    json_error,    \* the build: the exception response.json() raises on a malformed body
    \* ---- get_branch_tree (one call)
    t_pc,          \* "idle" | "ref" | "tree" | "walk" | "returned" | "raised"
    attempt,       \* the loop variable of "for attempt in range(max_retries)"
    t_result,      \* the value returned
    t_log,         \* the requests issued by the call, with their responses
    \* ---- parse_requirement_line and the requirements loop of
    \*      find_python_project_files (one requirements.txt)
    p_pc,          \* "idle" | "call" | "parsed" | "stored"
    requirements_content,  \* the text handed in: a line, or a whole file
    package_info,  \* what parse_requirement_line returned
    packages,      \* branch_data['requirements_packages']
    \* ---- extract_imports_from_python_content (one call)
    i_pc,          \* "idle" | "call" | "returned"
    py_content,    \* content: the source text handed in
    imports,       \* the set of pairs returned
    \* ---- find_python_project_files of fr10.py (one branch of one repository)
    a_pc,          \* "idle" | "branches" | "branch" | a manifest file | "scan" | "returned" | "raised"
    language,      \* repo.get('language')
    branches_left, \* the branches of the repository not yet checked
    a_log,         \* the manifest lookups of the branch being checked
    branch_data,   \* branch_data of the branch being checked
    scan,          \* the import scan of that branch: whether it ran, and its requests
    repo_branches, \* repo_data['branches']
    has_python_files,  \* repo_data['has_python_files']
    python_repos,  \* the list returned
    \* ---- find_python_project_files of prototype.py
    q_pc,          \* "idle" | "loop" | "returned" | "raised"
    q_repos,       \* repos: the names of the repositories handed in
    q_iter,        \* the items enumerate(repos, 1) has handed out
    q_index,       \* the loop variable index
    q_log,         \* the contents requests issued, with how each was taken
    q_python_repos,  \* python_repos: the list returned
    q_now          \* time.time(), in ticks of 1/Resolution second

rlVars == <<response, now, rl_pc, rl_ret, rl_slept>>
listVars == <<fn, limit, l_pc, endpoint, page, all_repos, all_branches, served,
              pauses, reqlog, call, first_limit, first_result>>
fileVars == <<f_fn, f_pc, f_result, f_log, remote, json_error>>
treeVars == <<t_pc, attempt, t_result, t_log>>
parseVars == <<p_pc, requirements_content, package_info, packages>>
importVars == <<i_pc, py_content, imports>>
aggVars == <<a_pc, language, branches_left, a_log, branch_data, scan,
             repo_branches, has_python_files, python_repos>>
protoVars == <<q_pc, q_repos, q_iter, q_index, q_log, q_python_repos, q_now>>
vars == <<rlVars, listVars, fileVars, treeVars, parseVars, importVars, aggVars,
          protoVars>>

-----------------------------------------------------------------------------
(* Bounds of the model *)

\* ticks per second of the model's clock (time.time() is a float)
Resolution == 2
\* latest clock reading, in ticks, at which a call is started
MaxNow == 3
\* longest header value, in characters
MaxHeaderLen == 2
\* pages the API holds data for; any further page asked for is empty
MaxServed == 2
\* rate-limit pauses the API imposes on one run
MaxPauses == 1
\* largest small limit passed to get_all_org_repos
MaxLimit == 2
\* the number of pieces a requirements text is put together from
MaxPieces == 4
\* the number of lines of a Python source text
MaxLines == 2
\* the number of branches of the repository checked
MaxBranches == 1
\* the number of branches of the repository checked on the steady API
MaxSteadyBranches == 2
\* the number of repositories handed to find_python_project_files of prototype.py
MaxRepos == 2

-----------------------------------------------------------------------------
(* Python values *)

Max(a, b) == IF a >= b THEN a ELSE b
Min(a, b) == IF a <= b THEN a ELSE b

Digits == {"0", "1", "2", "3", "4", "5", "6", "7", "8", "9"}

DigitVal == "0" :> 0 @@ "1" :> 1 @@ "2" :> 2 @@ "3" :> 3 @@ "4" :> 4 @@
            "5" :> 5 @@ "6" :> 6 @@ "7" :> 7 @@ "8" :> 8 @@ "9" :> 9

\* the characters header values are drawn from
HeaderChars == {"0", "5", "-", "x"}

RECURSIVE DecimalValue(_)
DecimalValue(s) ==
    IF s = <<>> THEN 0
    ELSE DecimalValue(SubSeq(s, 1, Len(s) - 1)) * 10 + DigitVal[s[Len(s)]]

\* the digits of s after an optional sign
Unsigned(s) == IF Len(s) > 0 /\ s[1] \in {"-", "+"} THEN Tail(s) ELSE s

\* int(s) succeeds: an optional sign followed by at least one digit
PyIntOk(s) ==
    /\ Len(Unsigned(s)) > 0
    /\ \A i \in 1..Len(Unsigned(s)) : Unsigned(s)[i] \in Digits

\* int(s), for a string s that int() accepts
PyInt(s) ==
    IF Len(s) > 0 /\ s[1] = "-" THEN 0 - DecimalValue(Unsigned(s))
    ELSE DecimalValue(Unsigned(s))

\* str.lower() of one word of a response body
LowerWord(w) ==
    CASE w = "API" -> "api"
      [] w = "Rate" -> "rate"
      [] w = "Limit" -> "limit"
      [] w = "Exceeded" -> "exceeded"
      [] w = "Not" -> "not"
      [] w = "Found" -> "found"
      [] OTHER -> w

\* response.text.lower(), the body being a sequence of words
Lower(text) == [i \in 1..Len(text) |-> LowerWord(text[i])]

\* 'rate limit exceeded' in text
ContainsRateLimitExceeded(text) ==
    \E i \in 1..Len(text) :
        /\ i + 2 <= Len(text)
        /\ SubSeq(text, i, i + 2) = <<"rate", "limit", "exceeded">>

-----------------------------------------------------------------------------
(* Responses *)

NoHeader == [present |-> FALSE, value |-> <<>>]
Header(v) == [present |-> TRUE, value |-> v]

RECURSIVE StringsUpTo(_)
StringsUpTo(n) ==
    IF n = 0 THEN {<<>>}
    ELSE LET shorter == StringsUpTo(n - 1)
         IN  shorter \cup {Append(s, c) : s \in shorter, c \in HeaderChars}

HeaderValues == {NoHeader} \cup {Header(v) : v \in StringsUpTo(MaxHeaderLen)}

BodyTexts == { <<>>,
               <<"Not", "Found">>,
               <<"API", "rate", "limit", "exceeded", "for", "user">>,
               <<"API", "Rate", "Limit", "Exceeded">>,
               <<"secondary", "rate", "limit">> }

StatusCodes == {200, 403, 404}

\* time.time() + 3600, the reset epoch assumed without X-RateLimit-Reset
DefaultResetDelay == 3600

-----------------------------------------------------------------------------
(* handle_rate_limiting *)

RateLimitOutcome(raised, ret, wait) ==
    [raised |-> raised, ret |-> ret, wait |-> wait]

\* the test of line 163 misread as the warning threshold of line 160
QuotaExhausted_BelowTen(remaining, r) ==
    remaining < 10
    \/ (r.status_code = 403 /\ ContainsRateLimitExceeded(Lower(r.text)))

\* remaining == 0 or (status_code == 403 and 'rate limit exceeded' in text.lower())
QuotaExhausted(remaining, r) ==
    remaining = 0
    \/ (r.status_code = 403 /\ ContainsRateLimitExceeded(Lower(r.text)))

\* the call for a response r read at clock reading t (ticks): whether it
\* raised, the value returned and the ticks slept
handle_rate_limiting(r, t) ==
    IF ~ r.headers.remaining.present
    THEN RateLimitOutcome(FALSE, FALSE, 0)
    ELSE IF ~ PyIntOk(r.headers.remaining.value)
    THEN RateLimitOutcome(TRUE, FALSE, 0)
    ELSE LET remaining == PyInt(r.headers.remaining.value)
         IN  IF QuotaExhausted(remaining, r)
             THEN IF r.headers.reset.present /\ ~ PyIntOk(r.headers.reset.value)
                  THEN RateLimitOutcome(TRUE, FALSE, 0)
                  ELSE LET reset_time ==
                               IF r.headers.reset.present
                               THEN PyInt(r.headers.reset.value)
                               ELSE (t \div Resolution) + DefaultResetDelay
                           wait_time ==
                               Max(reset_time * Resolution - t, 0) + Resolution
                       IN  RateLimitOutcome(FALSE, TRUE, wait_time)
             ELSE RateLimitOutcome(FALSE, FALSE, 0)

RLResponses ==
    [status_code : StatusCodes,
     text : BodyTexts,
     headers : [remaining : HeaderValues, reset : HeaderValues]]

\* no listing function is running
ListingIdle ==
    /\ fn = "none"
    /\ limit = [isNone |-> TRUE, val |-> 0]
    /\ l_pc = "idle"
    /\ endpoint = 1
    /\ page = 1
    /\ all_repos = <<>>
    /\ all_branches = <<>>
    /\ served = <<>>
    /\ pauses = 0
    /\ reqlog = <<>>
    /\ call = 1
    /\ first_limit = [isNone |-> TRUE, val |-> 0]
    /\ first_result = <<>>

\* no file function is running
FileIdle ==
    /\ f_fn = "none"
    /\ f_pc = "idle"
    /\ f_result = <<>>
    /\ f_log = <<>>
    /\ remote = <<>>
    /\ json_error = "requests"

\* get_branch_tree is not running
TreeIdle ==
    /\ t_pc = "idle"
    /\ attempt = 0
    /\ t_result = <<>>
    /\ t_log = <<>>

\* no requirements text is being parsed
ParseIdle ==
    /\ p_pc = "idle"
    /\ requirements_content = <<>>
    /\ package_info = <<>>
    /\ packages = <<>>

\* extract_imports_from_python_content is not running
ImportIdle ==
    /\ i_pc = "idle"
    /\ py_content = <<>>
    /\ imports = {}

\* find_python_project_files of fr10.py is not running
AggIdle ==
    /\ a_pc = "idle"
    /\ language = "none"
    /\ branches_left = 0
    /\ a_log = <<>>
    /\ branch_data = <<>>
    /\ scan = <<>>
    /\ repo_branches = <<>>
    /\ has_python_files = FALSE
    /\ python_repos = <<>>

\* find_python_project_files of prototype.py is not running
ProtoIdle ==
    /\ q_pc = "idle"
    /\ q_repos = <<>>
    /\ q_iter = 0
    /\ q_index = 0
    /\ q_log = <<>>
    /\ q_python_repos = <<>>
    /\ q_now = 0

\* no call of handle_rate_limiting is observed on its own
RLIdle ==
    /\ response = [status_code |-> 200, text |-> <<>>,
                   headers |-> [remaining |-> NoHeader, reset |-> NoHeader]]
    /\ now = 0
    /\ rl_pc = "idle"
    /\ rl_ret = FALSE
    /\ rl_slept = 0

RLInit ==
    /\ response \in RLResponses
    /\ now \in 0..MaxNow
    /\ rl_pc = "call"
    /\ rl_ret = FALSE
    /\ rl_slept = 0
    /\ ParseIdle /\ ImportIdle /\ AggIdle /\ ProtoIdle
    /\ ListingIdle
    /\ FileIdle
    /\ TreeIdle

\* one call of handle_rate_limiting(response)
CallHandleRateLimiting ==
    /\ rl_pc = "call"
    /\ LET out == handle_rate_limiting(response, now)
       IN  /\ rl_pc' = IF out.raised THEN "raised" ELSE "returned"
           /\ rl_ret' = out.ret
           /\ rl_slept' = out.wait
           /\ now' = now + out.wait
    /\ UNCHANGED response
    /\ UNCHANGED listVars
    /\ UNCHANGED <<fileVars, treeVars, parseVars, importVars, aggVars, protoVars>>

RLNext == CallHandleRateLimiting

SpecRL == RLInit /\ [][RLNext]_vars

-----------------------------------------------------------------------------
(* The listing API *)

\* per_page = 100, the page size asked for
per_page == 100

\* endpoints: the organisation's listing, then the user's listing
endpoints == <<"orgs/ORG/repos", "user/repos">>

\* 'user/repos' in endpoint_base
IsUserRepos(e) == endpoints[e] = "user/repos"

Repo(name, owner) == [name |-> name, owner |-> owner]

\* a page with two entries of one name owned by ORG after one owned elsewhere
ShortPage == <<Repo(1, "other"), Repo(1, "ORG"), Repo(1, "ORG"), Repo(2, "ORG")>>
ShortPageB == <<Repo(2, "ORG"), Repo(3, "ORG")>>
\* a page of per_page entries, all owned by ORG
FullPage == [i \in 1..per_page |-> Repo(i, "ORG")]
\* a page of per_page entries, every second one owned elsewhere
FullMixedPage ==
    [i \in 1..per_page |-> Repo(i + 3, IF i % 2 = 0 THEN "other" ELSE "ORG")]

\* a listing response without its rate-limit headers; link is "absent" (no Link
\* header), "next" (Link with rel="next") or "last" (Link without rel="next")
Listing(status, text, link, body) ==
    [status_code |-> status, text |-> text, link |-> link, body |-> body]

EmptyListing == Listing(200, <<>>, "absent", <<>>)

ListingPages ==
    { EmptyListing,
      Listing(404, <<"Not", "Found">>, "absent", <<>>),
      Listing(403, <<"API", "rate", "limit", "exceeded", "for", "user">>, "absent", <<>>),
      Listing(200, <<>>, "absent", ShortPage),
      Listing(200, <<>>, "next", ShortPage),
      Listing(200, <<>>, "next", ShortPageB),
      Listing(200, <<>>, "absent", FullPage),
      Listing(200, <<>>, "last", FullPage),
      Listing(200, <<>>, "absent", FullMixedPage) }

\* the rate-limit headers a listing response may carry
LoopHeaders ==
    { [remaining |-> NoHeader, reset |-> NoHeader],
      [remaining |-> Header(<<"5", "0">>), reset |-> NoHeader],
      [remaining |-> Header(<<"0">>), reset |-> Header(<<"5">>)],
      [remaining |-> Header(<<"x">>), reset |-> NoHeader] }

\* the pages the API may answer a request for page p of endpoint e with: the
\* page it answered with before, a new one, or an empty one once it has run
\* out of data
PagesFor(e, p) ==
    IF <<e, p>> \in DOMAIN served THEN {served[<<e, p>>]}
    ELSE IF Cardinality(DOMAIN served) >= MaxServed THEN {EmptyListing}
    ELSE ListingPages

Remember(e, p, data) ==
    IF <<e, p>> \in DOMAIN served THEN served ELSE served @@ (<<e, p>> :> data)

\* the entities of a page as delivered: each tagged with its place of delivery
Delivered(e, p, body) ==
    [i \in 1..Len(body) |->
        [name |-> body[i].name, owner |-> body[i].owner, src |-> <<e, p, i>>]]

\* the response object: the page and the rate-limit headers
ResponseOf(data, h) ==
    [status_code |-> data.status_code, text |-> data.text, headers |-> h]

-----------------------------------------------------------------------------
(* get_all_org_repos *)

NoLimit == [isNone |-> TRUE, val |-> 0]
Limit(n) == [isNone |-> FALSE, val |-> n]

Limits == {NoLimit} \cup {Limit(n) : n \in 0..MaxLimit} \cup {Limit(per_page + 1)}

\* "if limit": None and 0 are false
Truthy(l) == ~ l.isNone /\ l.val # 0

\* limit and len(all_repos) >= limit
LimitReached(l, repos) == Truthy(l) /\ Len(repos) >= l.val

\* [r for r in repos_page if r.get('owner', {}).get('login') == org_name],
\* applied to the pages of the user/repos endpoint
OrgFilter(e, repos_page) ==
    IF IsUserRepos(e)
    THEN SelectSeq(repos_page, LAMBDA r : r.owner = "ORG")
    ELSE repos_page

NamesOf(repos) == {repos[i].name : i \in 1..Len(repos)}

\* the entries of repos_page with their index in the page
Indexed(repos_page) ==
    [i \in 1..Len(repos_page) |-> [index |-> i, repo |-> repos_page[i]]]

Unindexed(indexed) == [k \in 1..Len(indexed) |-> indexed[k].repo]

\* the duplicate check without "existing_names.add(repo['name'])"
NewRepos_PageBlind(existing_names, repos_page) ==
    SelectSeq(repos_page, LAMBDA r : r.name \notin existing_names)

\* new_repos: the loop over repos_page takes an entry when its name is not in
\* existing_names, which holds the names of all_repos and, through
\* existing_names.add, the names of the entries of the page before it
NewRepos(existing_names, repos_page) ==
    Unindexed(SelectSeq(Indexed(repos_page),
        LAMBDA x : /\ x.repo.name \notin existing_names
                   /\ \A j \in 1..(x.index - 1) : repos_page[j].name # x.repo.name))

\* all_repos.extend(new_repos)
ExtendWithNew(repos, repos_page) ==
    repos \o NewRepos(NamesOf(repos), repos_page)

\* the size check alone, without the look at the Link header
IsLastPage_SizeOnly(link, repos_page) == Len(repos_page) < per_page

\* the page ends the endpoint's pagination (the checks on Link and page size)
IsLastPage(link, repos_page) ==
    IF link # "absent" THEN link # "next" ELSE Len(repos_page) < per_page

\* all_repos[:limit] when limit and len(all_repos) > limit
ApplyLimit(l, repos) ==
    IF Truthy(l) /\ Len(repos) > l.val THEN SubSeq(repos, 1, l.val) ELSE repos

\* the page counter after a pause: the page is asked for again
PageAfterPause_Advance(p) == p + 1

PageAfterPause(p) == p

\* time.sleep(0.5) between two pages, in ticks of the clock
PageDelay == Resolution \div 2

\* the request for page p of endpoint e and what came back
Logged(e, p, data, out, collected) ==
    [endpoint |-> e, page |-> p, paused |-> out.ret, raised |-> out.raised,
     status_code |-> data.status_code, link |-> data.link,
     size |-> Len(data.body), collected |-> collected]

ReposInit ==
    /\ fn = "get_all_org_repos"
    /\ limit \in Limits
    /\ l_pc = "auth"
    /\ endpoint = 1
    /\ page = 1
    /\ all_repos = <<>>
    /\ all_branches = <<>>
    /\ served = <<>>
    /\ pauses = 0
    /\ reqlog = <<>>
    /\ call = 1
    /\ first_limit = limit
    /\ first_result = <<>>

\* the start of get_all_org_repos: without GITHUB_TOKEN or ORG_NAME in the
\* environment, or when the request for /user is not answered with 200, None is
\* returned; otherwise the loop over the endpoints is entered, with its check
\* of the limit
CheckToken ==
    /\ fn = "get_all_org_repos"
    /\ l_pc = "auth"
    /\ \E configured \in BOOLEAN, status \in StatusCodes :
         l_pc' = IF ~ configured \/ status # 200 THEN "failed"
                 ELSE IF LimitReached(limit, all_repos) THEN "done"
                 ELSE "loop"
    /\ UNCHANGED <<fn, limit, endpoint, page, all_repos, all_branches, served,
                   pauses, reqlog, call, first_limit, first_result>>
    /\ UNCHANGED rlVars
    /\ UNCHANGED <<fileVars, treeVars, parseVars, importVars, aggVars, protoVars>>

\* "break" out of the while loop with repos collected: the for loop goes to the
\* next endpoint, unless the limit is reached or no endpoint is left, and then
\* the limit is applied and the list returned
LeaveEndpoint(repos) ==
    IF endpoint < Len(endpoints) /\ ~ LimitReached(limit, repos)
    THEN /\ endpoint' = endpoint + 1
         /\ page' = 1
         /\ all_repos' = repos
         /\ l_pc' = "loop"
    ELSE /\ all_repos' = ApplyLimit(limit, repos)
         /\ l_pc' = "done"
         /\ UNCHANGED <<endpoint, page>>

\* one iteration of "while True": the request for the page and what is done
\* with the response
FetchReposPage ==
    /\ fn = "get_all_org_repos"
    /\ l_pc = "loop"
    /\ \E data \in PagesFor(endpoint, page), h \in LoopHeaders :
         LET out == handle_rate_limiting(ResponseOf(data, h), now)
             repos_page == OrgFilter(endpoint, Delivered(endpoint, page, data.body))
         IN  \E extended \in {ExtendWithNew(all_repos, repos_page)} :
             /\ out.ret => pauses < MaxPauses
             /\ served' = Remember(endpoint, page, data)
             /\ reqlog' = Append(reqlog, Logged(endpoint, page, data, out, Len(all_repos)))
             /\ pauses' = IF out.ret THEN pauses + 1 ELSE pauses
             /\ IF out.raised
                THEN l_pc' = "raised" /\ UNCHANGED <<endpoint, page, all_repos>>
                ELSE IF out.ret
                THEN /\ page' = PageAfterPause(page)
                     /\ UNCHANGED <<l_pc, endpoint, all_repos>>
                ELSE IF data.status_code # 200 \/ data.body = <<>>
                THEN LeaveEndpoint(all_repos)
                ELSE IF LimitReached(limit, extended) \/ IsLastPage(data.link, repos_page)
                THEN LeaveEndpoint(extended)
                ELSE /\ page' = page + 1
                     /\ all_repos' = extended
                     /\ UNCHANGED <<l_pc, endpoint>>
             /\ now' = now + out.wait + (IF page' = page + 1 THEN PageDelay ELSE 0)
    /\ UNCHANGED <<fn, limit, all_branches, call, first_limit, first_result>>
    /\ UNCHANGED <<response, rl_pc, rl_ret, rl_slept>>
    /\ UNCHANGED <<fileVars, treeVars, parseVars, importVars, aggVars, protoVars>>

\* requests.get raises a RequestException: get_all_org_repos returns None
ReposRequestFails ==
    /\ fn = "get_all_org_repos"
    /\ l_pc \in {"auth", "loop"}
    /\ l_pc' = "failed"
    /\ UNCHANGED <<fn, limit, endpoint, page, all_repos, all_branches, served,
                   pauses, reqlog, call, first_limit, first_result>>
    /\ UNCHANGED rlVars
    /\ UNCHANGED <<fileVars, treeVars, parseVars, importVars, aggVars, protoVars>>

\* the listing is taken again, without a limit, from the same API
ListAgainWithoutLimit ==
    /\ fn = "get_all_org_repos"
    /\ l_pc = "done"
    /\ call = 1
    /\ ~ limit.isNone
    /\ call' = 2
    /\ first_result' = all_repos
    /\ limit' = NoLimit
    /\ l_pc' = "auth"
    /\ endpoint' = 1
    /\ page' = 1
    /\ all_repos' = <<>>
    /\ reqlog' = <<>>
    /\ UNCHANGED <<fn, all_branches, served, pauses, first_limit>>
    /\ UNCHANGED rlVars
    /\ UNCHANGED <<fileVars, treeVars, parseVars, importVars, aggVars, protoVars>>

-----------------------------------------------------------------------------
(* get_repository_branches *)

BranchesInit ==
    /\ fn = "get_repository_branches"
    /\ limit = NoLimit
    /\ l_pc = "loop"
    /\ endpoint = 1
    /\ page = 1
    /\ all_repos = <<>>
    /\ all_branches = <<>>
    /\ served = <<>>
    /\ pauses = 0
    /\ reqlog = <<>>
    /\ call = 1
    /\ first_limit = NoLimit
    /\ first_result = <<>>

\* one iteration of "while True" of get_repository_branches
FetchBranchesPage ==
    /\ fn = "get_repository_branches"
    /\ l_pc = "loop"
    /\ \E data \in PagesFor(endpoint, page), h \in LoopHeaders :
         LET out == handle_rate_limiting(ResponseOf(data, h), now)
             branches_page == Delivered(endpoint, page, data.body)
         IN  /\ out.ret => pauses < MaxPauses
             /\ served' = Remember(endpoint, page, data)
             /\ reqlog' = Append(reqlog, Logged(endpoint, page, data, out, Len(all_branches)))
             /\ pauses' = IF out.ret THEN pauses + 1 ELSE pauses
             /\ IF out.raised
                THEN l_pc' = "raised" /\ UNCHANGED <<page, all_branches>>
                ELSE IF out.ret
                THEN /\ page' = PageAfterPause(page)
                     /\ UNCHANGED <<l_pc, all_branches>>
                ELSE IF data.status_code # 200 \/ data.body = <<>>
                THEN l_pc' = "done" /\ UNCHANGED <<page, all_branches>>
                ELSE /\ all_branches' = all_branches \o branches_page
                     /\ IF Len(branches_page) < per_page
                        THEN l_pc' = "done" /\ UNCHANGED page
                        ELSE page' = page + 1 /\ UNCHANGED l_pc
             /\ now' = now + out.wait + (IF page' = page + 1 THEN PageDelay ELSE 0)
    /\ UNCHANGED <<fn, limit, endpoint, all_repos, call, first_limit, first_result>>
    /\ UNCHANGED <<response, rl_pc, rl_ret, rl_slept>>
    /\ UNCHANGED <<fileVars, treeVars, parseVars, importVars, aggVars, protoVars>>

\* requests.get raises a RequestException, which nothing here catches
BranchesRequestFails ==
    /\ fn = "get_repository_branches"
    /\ l_pc = "loop"
    /\ l_pc' = "raised"
    /\ UNCHANGED <<fn, limit, endpoint, page, all_repos, all_branches, served,
                   pauses, reqlog, call, first_limit, first_result>>
    /\ UNCHANGED rlVars
    /\ UNCHANGED <<fileVars, treeVars, parseVars, importVars, aggVars, protoVars>>

ListingInit ==
    (ReposInit \/ BranchesInit) /\ RLIdle /\ FileIdle /\ TreeIdle /\ ParseIdle /\ ImportIdle /\ AggIdle /\ ProtoIdle

ListingNext ==
    \/ CheckToken
    \/ FetchReposPage
    \/ ReposRequestFails
    \/ FetchBranchesPage
    \/ BranchesRequestFails

\* one call of get_all_org_repos or of get_repository_branches
SpecListing == ListingInit /\ [][ListingNext]_vars

LimitInit == ReposInit /\ RLIdle /\ FileIdle /\ TreeIdle /\ ParseIdle /\ ImportIdle /\ AggIdle /\ ProtoIdle

LimitNext ==
    \/ CheckToken
    \/ FetchReposPage
    \/ ReposRequestFails
    \/ ListAgainWithoutLimit

\* get_all_org_repos(limit), then the same listing taken without a limit
SpecLimit == LimitInit /\ [][LimitNext]_vars

-----------------------------------------------------------------------------
(* File contents: base64.b64decode(...).decode('utf-8', errors='replace') *)

B64Alphabet ==
    <<"A", "B", "C", "D", "E", "F", "G", "H", "I", "J", "K", "L", "M",
      "N", "O", "P", "Q", "R", "S", "T", "U", "V", "W", "X", "Y", "Z",
      "a", "b", "c", "d", "e", "f", "g", "h", "i", "j", "k", "l", "m",
      "n", "o", "p", "q", "r", "s", "t", "u", "v", "w", "x", "y", "z",
      "0", "1", "2", "3", "4", "5", "6", "7", "8", "9", "+", "/">>

IsB64(c) == \E i \in 1..Len(B64Alphabet) : B64Alphabet[i] = c

\* the six bits a character of the alphabet stands for
B64Val(c) == (CHOOSE i \in 1..Len(B64Alphabet) : B64Alphabet[i] = c) - 1

\* binascii.a2b_base64 as b64decode calls it (not strict): characters outside
\* the alphabet are skipped, a complete pad ends the input, and data left in
\* an incomplete quad at the end is an error (binascii.Error)
RECURSIVE a2b_base64(_, _, _, _, _, _)
a2b_base64(s, i, quad_pos, leftchar, pads, out) ==
    IF i > Len(s) THEN [ok |-> quad_pos = 0, bytes |-> out]
    ELSE IF s[i] = "="
    THEN IF quad_pos >= 2 /\ quad_pos + pads + 1 >= 4
         THEN [ok |-> TRUE, bytes |-> out]
         ELSE a2b_base64(s, i + 1, quad_pos, leftchar,
                         IF quad_pos >= 2 THEN pads + 1 ELSE pads, out)
    ELSE IF ~ IsB64(s[i])
    THEN a2b_base64(s, i + 1, quad_pos, leftchar, pads, out)
    ELSE LET this_ch == B64Val(s[i])
         IN  CASE quad_pos = 0 ->
                    a2b_base64(s, i + 1, 1, this_ch, 0, out)
               [] quad_pos = 1 ->
                    a2b_base64(s, i + 1, 2, this_ch % 16, 0,
                               Append(out, leftchar * 4 + this_ch \div 16))
               [] quad_pos = 2 ->
                    a2b_base64(s, i + 1, 3, this_ch % 4, 0,
                               Append(out, leftchar * 16 + this_ch \div 4))
               [] quad_pos = 3 ->
                    a2b_base64(s, i + 1, 0, 0, 0,
                               Append(out, leftchar * 64 + this_ch))

\* base64.b64decode(content); content None is a TypeError
b64decode(content) ==
    IF content.isNone THEN [ok |-> FALSE, bytes |-> <<>>]
    ELSE a2b_base64(content.chars, 1, 0, 0, 0, <<>>)

ReplacementChar == 65533

IsContinuation(b) == b >= 128 /\ b <= 191

\* the values the byte after lead byte b may take in well-formed UTF-8
SecondByteOk(b, c) ==
    CASE b = 224 -> c >= 160 /\ c <= 191
      [] b = 237 -> c >= 128 /\ c <= 159
      [] b = 240 -> c >= 144 /\ c <= 191
      [] b = 244 -> c >= 128 /\ c <= 143
      [] OTHER -> IsContinuation(c)

\* bytes.decode('utf-8', errors='replace'): the code points of the text; every
\* ill-formed sequence (its longest well-formed prefix, or one byte) becomes
\* U+FFFD
RECURSIVE utf8_decode_replace(_, _)
utf8_decode_replace(b, i) ==
    IF i > Len(b) THEN <<>>
    ELSE LET has(k) == i + k <= Len(b)
         IN  IF b[i] < 128
             THEN <<b[i]>> \o utf8_decode_replace(b, i + 1)
             ELSE IF b[i] >= 194 /\ b[i] <= 223
             THEN IF has(1) /\ IsContinuation(b[i + 1])
                  THEN <<(b[i] - 192) * 64 + (b[i + 1] - 128)>>
                           \o utf8_decode_replace(b, i + 2)
                  ELSE <<ReplacementChar>> \o utf8_decode_replace(b, i + 1)
             ELSE IF b[i] >= 224 /\ b[i] <= 239
             THEN IF ~ (has(1) /\ SecondByteOk(b[i], b[i + 1]))
                  THEN <<ReplacementChar>> \o utf8_decode_replace(b, i + 1)
                  ELSE IF ~ (has(2) /\ IsContinuation(b[i + 2]))
                  THEN <<ReplacementChar>> \o utf8_decode_replace(b, i + 2)
                  ELSE <<(b[i] - 224) * 4096 + (b[i + 1] - 128) * 64 + (b[i + 2] - 128)>>
                           \o utf8_decode_replace(b, i + 3)
             ELSE IF b[i] >= 240 /\ b[i] <= 244
             THEN IF ~ (has(1) /\ SecondByteOk(b[i], b[i + 1]))
                  THEN <<ReplacementChar>> \o utf8_decode_replace(b, i + 1)
                  ELSE IF ~ (has(2) /\ IsContinuation(b[i + 2]))
                  THEN <<ReplacementChar>> \o utf8_decode_replace(b, i + 2)
                  ELSE IF ~ (has(3) /\ IsContinuation(b[i + 3]))
                  THEN <<ReplacementChar>> \o utf8_decode_replace(b, i + 3)
                  ELSE <<(b[i] - 240) * 262144 + (b[i + 1] - 128) * 4096
                           + (b[i + 2] - 128) * 64 + (b[i + 3] - 128)>>
                           \o utf8_decode_replace(b, i + 4)
             ELSE <<ReplacementChar>> \o utf8_decode_replace(b, i + 1)

-----------------------------------------------------------------------------
(* Values returned and exceptions *)

NoneValue == [kind |-> "None"]
TextValue(code_points) == [kind |-> "str", text |-> code_points]
ListValue(files) == [kind |-> "list", files |-> files]

\* how a call ends: a value returned, or an exception leaving the function
Returns(v) == [raised |-> FALSE, value |-> v]
Raises == [raised |-> TRUE, value |-> NoneValue]

\* response.json() on a malformed body raises, depending on the requests
\* package installed: requests.exceptions.JSONDecodeError (a RequestException
\* and a json.JSONDecodeError), json.JSONDecodeError, or simplejson's
\* JSONDecodeError (a ValueError that is neither)
JSONErrorKinds == {"requests", "json", "simplejson"}

\* except (requests.exceptions.RequestException, json.JSONDecodeError)
CaughtAsRequestOrJSONError(kind) == kind \in {"requests", "json"}

\* except (requests.exceptions.RequestException, ChunkedEncodingError)
CaughtAsRequestError(kind) == kind = "requests"

-----------------------------------------------------------------------------
(* The contents API for one file *)

NoContent == [isNone |-> TRUE, chars |-> <<>>]
Content(chars) == [isNone |-> FALSE, chars |-> chars]

\* the body of a contents response: json is "object", "array" (the path is a
\* directory) or "malformed"
FileObject(encoding, content) ==
    [json |-> "object", encoding |-> encoding, content |-> content]
ArrayBody == [json |-> "array", encoding |-> "", content |-> NoContent]
MalformedBody == [json |-> "malformed", encoding |-> "", content |-> NoContent]

FileBodies ==
    { MalformedBody,
      ArrayBody,
      FileObject("none", Content(<<>>)),
      FileObject("base64", NoContent),
      FileObject("base64", Content(<<>>)),
      FileObject("base64", Content(<<"Y", "Q", "=", "=">>)),
      FileObject("base64", Content(<<"/", "w", "=", "=">>)),
      FileObject("base64", Content(<<"Y", "Q">>)) }

FileResponse(status, text, body) ==
    [status_code |-> status, text |-> text, body |-> body]

NotFound == FileResponse(404, <<"Not", "Found">>, MalformedBody)
QuotaExceeded ==
    FileResponse(403, <<"API", "rate", "limit", "exceeded", "for", "user">>, MalformedBody)

FileResponses ==
    {FileResponse(200, <<>>, b) : b \in FileBodies} \cup {NotFound, QuotaExceeded}

\* base64.b64decode(data.get('content')).decode('utf-8', errors='replace')
\* when data.get('encoding') == 'base64'; ok is FALSE when b64decode raises
DecodedContent(body) ==
    LET decoded == b64decode(body.content)
    IN  [ok |-> decoded.ok, text |-> utf8_decode_replace(decoded.bytes, 1)]

\* the request of a file function and what came back
FileLogged(data, out) ==
    [status_code |-> data.status_code, json |-> data.body.json,
     paused |-> out.ret, raised |-> out.raised]

\* find_file_in_branch, from the response on: out is what
\* handle_rate_limiting(file_response) did
find_file_in_branch(data, out) ==
    IF out.raised THEN Raises
    ELSE IF out.ret THEN Returns(NoneValue)
    ELSE IF data.status_code # 200 THEN Returns(NoneValue)
    ELSE IF data.body.json # "object" THEN Returns(NoneValue)
    ELSE IF data.body.encoding # "base64" THEN Returns(NoneValue)
    ELSE LET content == DecodedContent(data.body)
         IN  IF content.ok THEN Returns(TextValue(content.text))
             ELSE Returns(NoneValue)

\* get_python_file_content, from the response on: content_response.json() and
\* content_data.get are outside the try block
get_python_file_content(data, out) ==
    IF out.raised THEN Raises
    ELSE IF out.ret THEN Returns(NoneValue)
    ELSE IF data.status_code # 200 THEN Returns(NoneValue)
    ELSE IF data.body.json # "object" THEN Raises
    ELSE IF data.body.encoding # "base64" THEN Returns(NoneValue)
    ELSE LET content == DecodedContent(data.body)
         IN  IF content.ok THEN Returns(TextValue(content.text))
             ELSE Returns(NoneValue)

-----------------------------------------------------------------------------
(* The contents API for directories, and the fallback walk *)

\* names and paths are strings, held as sequences of characters
Str_src == <<"s", "r", "c">>
Str_app == <<"a", "p", "p">>
Str_lib == <<"l", "i", "b">>
Str_core == <<"c", "o", "r", "e">>
Str_models == <<"m", "o", "d", "e", "l", "s">>
Str_utils == <<"u", "t", "i", "l", "s">>
Str_docs == <<"d", "o", "c", "s">>
Str_py == <<".", "p", "y">>
Str_md == <<".", "m", "d">>

important_dirs == {Str_src, Str_app, Str_lib, Str_core, Str_models, Str_utils}

\* the directories probed when fewer than 5 files were found
probed_dirs == <<Str_src, Str_app, Str_lib>>

\* str.endswith
EndsWith(s, suffix) ==
    /\ Len(s) >= Len(suffix)
    /\ SubSeq(s, Len(s) - Len(suffix) + 1, Len(s)) = suffix

\* an item of a directory listing; its url is the API address of the path
Item(type, name, path) ==
    [type |-> type, name |-> name, path |-> path, url |-> <<"/">> \o path]

FileIn(dir, stem, ext) ==
    Item("file", <<stem>> \o ext,
         IF dir = <<>> THEN <<stem>> \o ext ELSE dir \o <<"/">> \o <<stem>> \o ext)

DirItem(name) == Item("dir", name, name)

\* the entry appended to python_files for a listing item
PyFile(item) == [path |-> item.path, type |-> "blob", url |-> item.url]

\* the response to a directory request: fails is TRUE when requests.get raises
\* a RequestException; json is "array", "object" (the path is a file) or
\* "malformed"
DirResponse(fails, status, text, json, items) ==
    [fails |-> fails, status_code |-> status, text |-> text, json |-> json, items |-> items]

DirListing(items) == DirResponse(FALSE, 200, <<>>, "array", items)
DirNotFound == DirResponse(FALSE, 404, <<"Not", "Found">>, "object", <<>>)
DirFails == DirResponse(TRUE, 0, <<>>, "malformed", <<>>)
DirMalformed == DirResponse(FALSE, 200, <<>>, "malformed", <<>>)
DirIsFile == DirResponse(FALSE, 200, <<>>, "object", <<>>)
DirQuotaExceeded ==
    DirResponse(FALSE, 403, <<"API", "rate", "limit", "exceeded", "for", "user">>, "object", <<>>)

\* what the API answers for the directory at path
DirAt(rem, path) ==
    IF path \in DOMAIN rem.dirs THEN rem.dirs[path] ELSE DirNotFound

\* the .py files of a listing
PythonFilesOf(items) ==
    LET py == SelectSeq(items, LAMBDA item :
                  item.type = "file" /\ EndsWith(item.name, Str_py))
    IN  [k \in 1..Len(py) |-> PyFile(py[k])]

\* get_directory_python_files: iterating over a JSON object yields its keys,
\* and item.get on a key is an AttributeError, which is not caught
get_directory_python_files(dir_response, kind) ==
    IF dir_response.fails THEN Returns(<<>>)
    ELSE IF dir_response.status_code # 200 THEN Returns(<<>>)
    ELSE IF dir_response.json = "malformed"
    THEN IF CaughtAsRequestOrJSONError(kind) THEN Returns(<<>>) ELSE Raises
    ELSE IF dir_response.json = "object" THEN Raises
    ELSE Returns(PythonFilesOf(dir_response.items))

\* the files one item of the root listing contributes
FilesOfRootItem(rem, item, kind) ==
    IF item.type = "file" /\ EndsWith(item.name, Str_py)
    THEN Returns(<<PyFile(item)>>)
    ELSE IF item.type = "dir" /\ item.name \in important_dirs
    THEN get_directory_python_files(DirAt(rem, item.path), kind)
    ELSE Returns(<<>>)

\* "for item in root_contents": python_files extended item by item, from item i
\* on; the loop ends at the first exception
RECURSIVE WalkRootContents(_, _, _, _, _)
WalkRootContents(rem, root_contents, i, kind, python_files) ==
    IF i > Len(root_contents) THEN Returns(python_files)
    ELSE LET found == FilesOfRootItem(rem, root_contents[i], kind)
         IN  IF found.raised THEN Raises
             ELSE WalkRootContents(rem, root_contents, i + 1, kind,
                                   python_files \o found.value)

\* "for dir_name in ['src', 'app', 'lib']": python_files extended by the files
\* of each probed directory, from directory i on
RECURSIVE ProbeDirs(_, _, _, _)
ProbeDirs(rem, i, kind, python_files) ==
    IF i > Len(probed_dirs) THEN Returns(python_files)
    ELSE LET dir_files == get_directory_python_files(DirAt(rem, probed_dirs[i]), kind)
         IN  IF dir_files.raised THEN Raises
             ELSE ProbeDirs(rem, i + 1, kind, python_files \o dir_files.value)

\* get_python_files_alternative, from the root response on
get_python_files_alternative(rem, out, kind) ==
    IF out.raised THEN Raises
    ELSE IF out.ret THEN Returns(ListValue(<<>>))
    ELSE IF rem.root.status_code # 200 THEN Returns(ListValue(<<>>))
    ELSE IF rem.root.json = "malformed"
    THEN IF CaughtAsRequestOrJSONError(kind) THEN Returns(ListValue(<<>>)) ELSE Raises
    ELSE IF rem.root.json = "object" THEN Raises
    ELSE LET walked == WalkRootContents(rem, rem.root.items, 1, kind, <<>>)
         IN  IF walked.raised THEN Raises
             ELSE IF Len(walked.value) >= 5 THEN Returns(ListValue(walked.value))
             ELSE LET probed == ProbeDirs(rem, 1, kind, walked.value)
                  IN  IF probed.raised THEN Raises
                      ELSE Returns(ListValue(probed.value))

-----------------------------------------------------------------------------
(* One call of find_file_in_branch, get_python_file_content or
   get_python_files_alternative *)

RootSome ==
    <<FileIn(<<>>, "a", Str_py), FileIn(<<>>, "R", Str_md), DirItem(Str_src),
      DirItem(Str_docs)>>

RootMany ==
    <<FileIn(<<>>, "a", Str_py), FileIn(<<>>, "b", Str_py), FileIn(<<>>, "c", Str_py),
      FileIn(<<>>, "d", Str_py), FileIn(<<>>, "e", Str_py), DirItem(Str_lib)>>

RootResponses ==
    { DirListing(RootSome), DirListing(RootMany), DirListing(<<>>),
      DirMalformed, DirIsFile, DirNotFound, DirQuotaExceeded }

SrcListing == DirListing(<<FileIn(Str_src, "m", Str_py), FileIn(Str_src, "n", Str_md)>>)
LibListing == DirListing(<<FileIn(Str_lib, "u", Str_py)>>)

\* what the API holds for the directories the walk may ask for
DirMaps ==
    { (Str_src :> s) @@ (Str_lib :> l) :
        s \in {SrcListing, DirNotFound, DirFails, DirMalformed, DirIsFile},
        l \in {LibListing, DirNotFound} }

NoDirs == (Str_src :> DirNotFound)

Remote(file, root, dirs) == [file |-> file, root |-> root, dirs |-> dirs]

FileRemotes == {Remote(f, DirNotFound, NoDirs) : f \in FileResponses}

WalkRemotes == {Remote(NotFound, r, d) : r \in RootResponses, d \in DirMaps}

FileFunctions ==
    {"find_file_in_branch", "get_python_file_content", "get_python_files_alternative"}

FileInit ==
    /\ f_fn \in FileFunctions
    /\ f_pc = "call"
    /\ f_result = <<>>
    /\ f_log = <<>>
    /\ remote \in IF f_fn = "get_python_files_alternative" THEN WalkRemotes
                  ELSE FileRemotes
    /\ json_error \in JSONErrorKinds
    /\ RLIdle
    /\ ListingIdle
    /\ TreeIdle
    /\ ParseIdle /\ ImportIdle /\ AggIdle /\ ProtoIdle

\* the call ends with outcome res
FileCallEnds(res) ==
    /\ f_pc' = IF res.raised THEN "raised" ELSE "returned"
    /\ f_result' = res.value

\* find_file_in_branch(repo_full_name, branch_name, file_path)
FindFileInBranch ==
    /\ f_fn = "find_file_in_branch"
    /\ f_pc = "call"
    /\ \E h \in LoopHeaders :
         LET out == handle_rate_limiting(ResponseOf(remote.file, h), now)
         IN  /\ f_log' = Append(f_log, FileLogged(remote.file, out))
             /\ now' = now + out.wait
             /\ FileCallEnds(find_file_in_branch(remote.file, out))
    /\ UNCHANGED <<f_fn, remote, json_error>>
    /\ UNCHANGED <<response, rl_pc, rl_ret, rl_slept>>
    /\ UNCHANGED <<listVars, treeVars, parseVars, importVars, aggVars, protoVars>>

\* get_python_file_content(repo_full_name, branch_name, file_path)
GetPythonFileContent ==
    /\ f_fn = "get_python_file_content"
    /\ f_pc = "call"
    /\ \E h \in LoopHeaders :
         LET out == handle_rate_limiting(ResponseOf(remote.file, h), now)
         IN  /\ f_log' = Append(f_log, FileLogged(remote.file, out))
             /\ now' = now + out.wait
             /\ FileCallEnds(get_python_file_content(remote.file, out))
    /\ UNCHANGED <<f_fn, remote, json_error>>
    /\ UNCHANGED <<response, rl_pc, rl_ret, rl_slept>>
    /\ UNCHANGED <<listVars, treeVars, parseVars, importVars, aggVars, protoVars>>

\* the root request of the walk and what came back
RootLogged(data, out) ==
    [status_code |-> data.status_code, json |-> data.json,
     paused |-> out.ret, raised |-> out.raised]

\* get_python_files_alternative(repo_full_name, branch_name, headers)
GetPythonFilesAlternative ==
    /\ f_fn = "get_python_files_alternative"
    /\ f_pc = "call"
    /\ \E h \in LoopHeaders :
         LET out == handle_rate_limiting(ResponseOf(remote.root, h), now)
         IN  /\ f_log' = Append(f_log, RootLogged(remote.root, out))
             /\ now' = now + out.wait
             /\ FileCallEnds(get_python_files_alternative(remote, out, json_error))
    /\ UNCHANGED <<f_fn, remote, json_error>>
    /\ UNCHANGED <<response, rl_pc, rl_ret, rl_slept>>
    /\ UNCHANGED <<listVars, treeVars, parseVars, importVars, aggVars, protoVars>>

\* requests.get raises a RequestException: the walk catches it and returns [],
\* the two file functions let it pass
FileRequestFails ==
    /\ f_pc = "call"
    /\ FileCallEnds(IF f_fn = "get_python_files_alternative"
                    THEN Returns(ListValue(<<>>)) ELSE Raises)
    /\ UNCHANGED <<f_fn, f_log, remote, json_error>>
    /\ UNCHANGED <<rlVars, listVars, treeVars, parseVars, importVars, aggVars, protoVars>>

FileNext ==
    \/ FindFileInBranch
    \/ GetPythonFileContent
    \/ GetPythonFilesAlternative
    \/ FileRequestFails

\* one call of one of the three functions that ask for contents
SpecFile == FileInit /\ [][FileNext]_vars

-----------------------------------------------------------------------------
(* get_branch_tree *)

max_retries == 3

\* the response to the branch request: json is "object" or "malformed", sha
\* tells whether the object holds commit.sha
RefResponse(status, text, json, sha) ==
    [status_code |-> status, text |-> text, json |-> json, sha |-> sha,
     truncated |-> FALSE, items |-> <<>>]

RefResponses ==
    { RefResponse(200, <<>>, "object", TRUE),
      RefResponse(200, <<>>, "object", FALSE),
      RefResponse(200, <<>>, "malformed", FALSE),
      RefResponse(404, <<"Not", "Found">>, "object", FALSE),
      RefResponse(403, <<"API", "rate", "limit", "exceeded", "for", "user">>, "object", FALSE) }

\* an item of a git tree
TreeItem(type, path) == [type |-> type, path |-> path, url |-> <<"/">> \o path]

TreeItems ==
    <<TreeItem("blob", <<"a">> \o Str_py), TreeItem("tree", Str_src),
      TreeItem("blob", Str_src \o <<"/", "m">> \o Str_py),
      TreeItem("blob", <<"R">> \o Str_md), TreeItem("tree", <<"t">> \o Str_py)>>

\* the response to the tree request
TreeResponse(status, text, json, truncated, items) ==
    [status_code |-> status, text |-> text, json |-> json, sha |-> FALSE,
     truncated |-> truncated, items |-> items]

TreeResponses ==
    { TreeResponse(200, <<>>, "object", FALSE, TreeItems),
      TreeResponse(200, <<>>, "object", TRUE, TreeItems),
      TreeResponse(200, <<>>, "object", FALSE, <<>>),
      TreeResponse(200, <<>>, "malformed", FALSE, <<>>),
      TreeResponse(404, <<"Not", "Found">>, "object", FALSE, <<>>),
      TreeResponse(403, <<"API", "rate", "limit", "exceeded", "for", "user">>, "object", FALSE, <<>>) }

\* [item for item in tree_items
\*  if item.get('type') == 'blob' and item.get('path', '').endswith('.py')]
PythonBlobs(tree_items) ==
    SelectSeq(tree_items, LAMBDA item : item.type = "blob" /\ EndsWith(item.path, Str_py))

\* a tree that is never taken as truncated
IsTruncated_Never(tree_data) == FALSE

\* tree_data.get('truncated', False)
IsTruncated(tree_data) == tree_data.truncated

\* time.sleep(2 ** attempt), in ticks
Backoff(a) == (2 ^ a) * Resolution

\* a request of get_branch_tree and what became of it: failed when
\* requests.get raised, retried when the except clause of the loop slept and
\* went to the next attempt
TreeLogged(req, a, data, out, failed, retried) ==
    [req |-> req, attempt |-> a, status_code |-> data.status_code,
     json |-> data.json, truncated |-> data.truncated, paused |-> out.ret,
     raised |-> out.raised, failed |-> failed, retried |-> retried]

NoResponse == TreeResponse(0, <<>>, "malformed", FALSE, <<>>)
NoOutcome == RateLimitOutcome(FALSE, FALSE, 0)

\* what the API holds for the fallback walk of get_branch_tree
TreeRemotes ==
    { Remote(NotFound, DirListing(RootSome), (Str_src :> SrcListing)),
      Remote(NotFound, DirListing(RootSome), (Str_src :> DirIsFile)),
      Remote(NotFound, DirMalformed, NoDirs),
      Remote(NotFound, DirNotFound, NoDirs) }

TreeInit ==
    /\ t_pc = "ref"
    /\ attempt = 0
    /\ t_result = <<>>
    /\ t_log = <<>>
    /\ remote \in TreeRemotes
    /\ json_error \in JSONErrorKinds
    /\ f_fn = "none"
    /\ f_pc = "idle"
    /\ f_result = <<>>
    /\ f_log = <<>>
    /\ RLIdle
    /\ ListingIdle
    /\ ParseIdle /\ ImportIdle /\ AggIdle /\ ProtoIdle

\* the end of one pass of "for attempt in range(max_retries)" that did not
\* return: the next attempt, or the fallback after the loop
NextAttempt ==
    IF attempt + 1 < max_retries
    THEN attempt' = attempt + 1 /\ t_pc' = "ref"
    ELSE t_pc' = "walk" /\ UNCHANGED attempt

\* the except clause of the loop: time.sleep(2 ** attempt), then the next attempt
SleepAndRetry ==
    /\ now' = now + Backoff(attempt)
    /\ NextAttempt
    /\ UNCHANGED t_result

TreeRaises ==
    /\ t_pc' = "raised"
    /\ UNCHANGED <<now, attempt, t_result>>

TreeReturns(v) ==
    /\ t_pc' = "returned"
    /\ t_result' = v
    /\ UNCHANGED <<now, attempt>>

\* the request for the branch and what is done with the response
RefRequest ==
    /\ t_pc = "ref"
    /\ \E data \in RefResponses, h \in LoopHeaders :
         LET out == handle_rate_limiting(ResponseOf(data, h), now)
             retried == /\ ~ out.raised /\ ~ out.ret
                        /\ data.status_code = 200 /\ data.json = "malformed"
                        /\ CaughtAsRequestOrJSONError(json_error)
         IN  /\ t_log' = Append(t_log, TreeLogged("ref", attempt, data, out, FALSE, retried))
             /\ IF out.raised THEN TreeRaises
                ELSE IF out.ret
                THEN now' = now + out.wait /\ NextAttempt /\ UNCHANGED t_result
                ELSE IF data.status_code # 200 THEN TreeReturns(ListValue(<<>>))
                ELSE IF data.json = "malformed"
                THEN IF retried THEN SleepAndRetry ELSE TreeRaises
                ELSE IF ~ data.sha THEN TreeReturns(ListValue(<<>>))
                ELSE t_pc' = "tree" /\ UNCHANGED <<now, attempt, t_result>>
    /\ UNCHANGED <<f_fn, f_pc, f_result, f_log, remote, json_error>>
    /\ UNCHANGED <<response, rl_pc, rl_ret, rl_slept>>
    /\ UNCHANGED <<listVars, parseVars, importVars, aggVars, protoVars>>

\* requests.get for the branch raises a RequestException
RefRequestFails ==
    /\ t_pc = "ref"
    /\ t_log' = Append(t_log, TreeLogged("ref", attempt, NoResponse, NoOutcome, TRUE, TRUE))
    /\ SleepAndRetry
    /\ UNCHANGED <<f_fn, f_pc, f_result, f_log, remote, json_error>>
    /\ UNCHANGED <<response, rl_pc, rl_ret, rl_slept>>
    /\ UNCHANGED <<listVars, parseVars, importVars, aggVars, protoVars>>

\* the request for the tree and what is done with the response
TreeRequest ==
    /\ t_pc = "tree"
    /\ \E data \in TreeResponses, h \in LoopHeaders :
         LET out == handle_rate_limiting(ResponseOf(data, h), now)
             malformed == /\ ~ out.raised /\ ~ out.ret
                          /\ data.status_code = 200 /\ data.json = "malformed"
             retried == /\ malformed
                        /\ ~ CaughtAsRequestError(json_error)
                        /\ CaughtAsRequestOrJSONError(json_error)
         IN  /\ t_log' = Append(t_log, TreeLogged("tree", attempt, data, out, FALSE, retried))
             /\ IF out.raised THEN TreeRaises
                ELSE IF out.ret
                THEN now' = now + out.wait /\ NextAttempt /\ UNCHANGED t_result
                ELSE IF data.status_code # 200
                THEN t_pc' = "walk" /\ UNCHANGED <<now, attempt, t_result>>
                ELSE IF malformed
                THEN IF CaughtAsRequestError(json_error)
                     THEN t_pc' = "walk" /\ UNCHANGED <<now, attempt, t_result>>
                     ELSE IF retried THEN SleepAndRetry ELSE TreeRaises
                ELSE IF IsTruncated(data)
                THEN t_pc' = "walk" /\ UNCHANGED <<now, attempt, t_result>>
                ELSE TreeReturns(ListValue(PythonBlobs(data.items)))
    /\ UNCHANGED <<f_fn, f_pc, f_result, f_log, remote, json_error>>
    /\ UNCHANGED <<response, rl_pc, rl_ret, rl_slept>>
    /\ UNCHANGED <<listVars, parseVars, importVars, aggVars, protoVars>>

\* requests.get for the tree raises a RequestException (ChunkedEncodingError
\* is one): the fallback walk is taken
TreeRequestFails ==
    /\ t_pc = "tree"
    /\ t_log' = Append(t_log, TreeLogged("tree", attempt, NoResponse, NoOutcome, TRUE, FALSE))
    /\ t_pc' = "walk"
    /\ UNCHANGED <<now, attempt, t_result>>
    /\ UNCHANGED <<f_fn, f_pc, f_result, f_log, remote, json_error>>
    /\ UNCHANGED <<response, rl_pc, rl_ret, rl_slept>>
    /\ UNCHANGED <<listVars, parseVars, importVars, aggVars, protoVars>>

\* return get_python_files_alternative(repo_full_name, branch_name, headers)
FallbackWalk ==
    /\ t_pc = "walk"
    /\ \E h \in LoopHeaders :
         LET out == handle_rate_limiting(ResponseOf(remote.root, h), now)
             res == get_python_files_alternative(remote, out, json_error)
             data == TreeResponse(remote.root.status_code, <<>>, remote.root.json, FALSE, <<>>)
         IN  /\ t_log' = Append(t_log, TreeLogged("root", attempt, data, out, FALSE, FALSE))
             /\ now' = now + out.wait
             /\ t_pc' = IF res.raised THEN "raised" ELSE "returned"
             /\ t_result' = res.value
    /\ UNCHANGED attempt
    /\ UNCHANGED <<f_fn, f_pc, f_result, f_log, remote, json_error>>
    /\ UNCHANGED <<response, rl_pc, rl_ret, rl_slept>>
    /\ UNCHANGED <<listVars, parseVars, importVars, aggVars, protoVars>>

\* requests.get for the root directory raises a RequestException: the walk
\* returns []
FallbackRequestFails ==
    /\ t_pc = "walk"
    /\ t_log' = Append(t_log, TreeLogged("root", attempt, NoResponse, NoOutcome, TRUE, FALSE))
    /\ TreeReturns(ListValue(<<>>))
    /\ UNCHANGED <<f_fn, f_pc, f_result, f_log, remote, json_error>>
    /\ UNCHANGED <<response, rl_pc, rl_ret, rl_slept>>
    /\ UNCHANGED <<listVars, parseVars, importVars, aggVars, protoVars>>

TreeNext ==
    \/ RefRequest
    \/ RefRequestFails
    \/ TreeRequest
    \/ TreeRequestFails
    \/ FallbackWalk
    \/ FallbackRequestFails

\* one call of get_branch_tree
SpecTree == TreeInit /\ [][TreeNext]_vars

-----------------------------------------------------------------------------
(***************************************************************************)
(* parse_requirement_line and the requirements loop of                     *)
(* find_python_project_files.  A text is a sequence of characters.         *)
(***************************************************************************)

\* the characters str.strip() removes, among those the texts are made of
Whitespace == {" ", "\t", "\n", "\r", "\f"}

\* the least member of a non-empty set of positions
Least(S) == CHOOSE i \in S : \A j \in S : i <= j

\* the greatest member of a non-empty set of positions
Greatest(S) == CHOOSE i \in S : \A j \in S : i >= j

\* s[i - 1:], positions counted from 1
From(s, i) == SubSeq(s, i, Len(s))

\* str.strip()
strip(s) ==
    LET kept == {i \in 1..Len(s) : s[i] \notin Whitespace}
    IN  IF kept = {} THEN <<>> ELSE SubSeq(s, Least(kept), Greatest(kept))

\* str.startswith(prefix)
startswith(s, prefix) ==
    /\ Len(prefix) <= Len(s)
    /\ SubSeq(s, 1, Len(prefix)) = prefix

\* str.find(sub) for a non-empty sub, positions counted from 1: 0 when sub
\* does not occur
find(s, sub) ==
    LET at == {i \in 1..(Len(s) - Len(sub) + 1) :
                   SubSeq(s, i, i + Len(sub) - 1) = sub}
    IN  IF at = {} THEN 0 ELSE Least(at)

\* str.split(sep): the parts between the occurrences of sep, left to right
RECURSIVE split(_, _)
split(s, sep) ==
    LET i == find(s, sep)
    IN  IF i = 0 THEN <<s>>
        ELSE <<SubSeq(s, 1, i - 1)>> \o split(From(s, i + Len(sep)), sep)

\* str.split(sep, 1)
split_once(s, sep) ==
    LET i == find(s, sep)
    IN  IF i = 0 THEN <<s>>
        ELSE <<SubSeq(s, 1, i - 1), From(s, i + Len(sep))>>

Str_git_plus == <<"g", "i", "t", "+">>
Str_http == <<"h", "t", "t", "p">>
Str_egg == <<"#", "e", "g", "g", "=">>
Str_git == <<"g", "i", "t">>
Str_url == <<"u", "r", "l">>
Str_latest == <<"l", "a", "t", "e", "s", "t">>

\* the list the loop of parse_requirement_line goes through, in its order
operators ==
    << <<"=", "=">>, <<">", "=">>, <<"<", "=">>, <<">">>, <<"<">>,
       <<"~", "=">>, <<"!", "=">> >>

\* {'name': ..., 'version': ..., 'raw': ...}
PackageInfo(name, version, raw) ==
    [kind |-> "dict", name |-> name, version |-> version, raw |-> raw]

\* a mutation of RemoveComment: the text after '#' stays
RemoveComment_Keep(line) == strip(line)

\* line.split('#')[0].strip()
RemoveComment(line) == strip(split(line, <<"#">>)[1])

\* the index of the first operator of the list that occurs in line, 0 if none
FirstOperator(line) ==
    LET found == {k \in 1..Len(operators) : find(line, operators[k]) # 0}
    IN  IF found = {} THEN 0 ELSE Least(found)

\* parse_requirement_line(line)
parse_requirement_line(text) ==
    LET line == RemoveComment(text)
    IN  IF line = <<>> THEN NoneValue
        ELSE IF startswith(line, Str_git_plus) \/ startswith(line, Str_http)
        THEN LET parts == split(line, Str_egg)
             IN  IF Len(parts) > 1
                 THEN PackageInfo(strip(parts[2]), Str_git, line)
                 ELSE PackageInfo(line, Str_url, line)
        ELSE LET k == FirstOperator(line)
             IN  IF k # 0
                 THEN LET parts == split_once(line, operators[k])
                      IN  PackageInfo(strip(parts[1]),
                                      operators[k] \o strip(parts[2]), line)
                 ELSE PackageInfo(strip(line), Str_latest, line)

\* the line boundaries of str.splitlines(), among the characters of the texts
LineBoundaries == {"\n", "\r", "\f"}

\* str.splitlines(): "\r\n" is one boundary, and no empty line follows the
\* last boundary
RECURSIVE splitlines(_)
splitlines(s) ==
    LET ends == {i \in 1..Len(s) : s[i] \in LineBoundaries}
    IN  IF s = <<>> THEN <<>>
        ELSE IF ends = {} THEN <<s>>
        ELSE LET i == Least(ends)
                 skip == IF s[i] = "\r" /\ i < Len(s) /\ s[i + 1] = "\n"
                         THEN 2 ELSE 1
             IN  <<SubSeq(s, 1, i - 1)>> \o splitlines(From(s, i + skip))

\* the body of "for line in requirements_content.splitlines()" in
\* find_python_project_files, from line i of lines on
RECURSIVE RequirementsLoop(_, _, _)
RequirementsLoop(lines, i, pkgs) ==
    IF i > Len(lines) THEN pkgs
    ELSE LET line == strip(lines[i])
         IN  IF line # <<>> /\ ~ startswith(line, <<"#">>)
             THEN LET info == parse_requirement_line(line)
                  IN  RequirementsLoop(lines, i + 1,
                          IF info # NoneValue THEN Append(pkgs, info) ELSE pkgs)
             ELSE RequirementsLoop(lines, i + 1, pkgs)

\* the pieces the texts are put together from
Pieces ==
    {Str_git_plus, Str_http, Str_egg, <<"#">>, <<" ">>, <<"a">>, <<"=">>,
     <<">">>, <<"<">>, <<"~">>, <<"!">>, <<"\n">>}

\* the pieces of a sequence of pieces, one after the other
RECURSIVE Joined(_)
Joined(ps) == IF ps = <<>> THEN <<>> ELSE Head(ps) \o Joined(Tail(ps))

\* a pinned requirement with an inline comment
Line_pinned ==
    <<"r", "e", "q", "u", "e", "s", "t", "s", "=", "=", "2", ".", "3", "1",
      ".", "0", " ", " ", "#", " ", "p", "i", "n", "n", "e", "d">>

\* a requirement fetched from a repository, named by its egg fragment
Line_egg ==
    <<"g", "i", "t", "+", "h", "t", "t", "p", "s", ":", "/", "/", "e", "x",
      "a", "m", "p", "l", "e", ".", "c", "o", "m", "/", "x", ".", "g", "i",
      "t", "#", "e", "g", "g", "=", "f", "o", "o">>

\* a pinned requirement of a package whose name begins with 'http'
Line_httpx ==
    <<"h", "t", "t", "p", "x", "=", "=", "0", ".", "2", "4", ".", "0">>

\* the texts handed in: at most pieces pieces, and the three lines above
Texts(pieces) ==
    {Joined(ps) : ps \in UNION {[1..n -> Pieces] : n \in 0..pieces}}
        \cup {Line_pinned, Line_egg, Line_httpx}

ParseInit ==
    /\ p_pc = "call"
    /\ requirements_content \in Texts(MaxPieces)
    /\ package_info = <<>>
    /\ packages = <<>>
    /\ ImportIdle /\ AggIdle /\ ProtoIdle
    /\ RLIdle
    /\ ListingIdle
    /\ FileIdle
    /\ TreeIdle

\* parse_requirement_line(requirements_content): the text is taken as one line
ParseRequirementLine ==
    /\ p_pc = "call"
    /\ p_pc' = "parsed"
    /\ package_info' = parse_requirement_line(requirements_content)
    /\ UNCHANGED <<requirements_content, packages>>
    /\ UNCHANGED <<rlVars, listVars, fileVars, treeVars>>
    /\ UNCHANGED <<importVars, aggVars, protoVars>>

\* find_python_project_files, from "if requirements_content:" to
\* branch_data['requirements_packages'] = packages
StoreRequirements ==
    /\ p_pc = "call"
    /\ requirements_content # <<>>
    /\ p_pc' = "stored"
    /\ packages' = RequirementsLoop(splitlines(requirements_content), 1, <<>>)
    /\ UNCHANGED <<requirements_content, package_info>>
    /\ UNCHANGED <<rlVars, listVars, fileVars, treeVars>>
    /\ UNCHANGED <<importVars, aggVars, protoVars>>

ParseNext ==
    \/ ParseRequirementLine
    \/ StoreRequirements

\* one requirements text, parsed as a line or stored as a file
SpecParse == ParseInit /\ [][ParseNext]_vars

-----------------------------------------------------------------------------
(***************************************************************************)
(* extract_imports_from_python_content.  The five regular expressions are  *)
(* matched from the start of a line; a position is counted from 1, and 0   *)
(* says that the match failed.                                             *)
(***************************************************************************)

\* the characters \w matches, among those the texts are made of
WordChars ==
    {"a", "b", "c", "d", "e", "f", "g", "h", "i", "j", "k", "l", "m", "n",
     "o", "p", "q", "r", "s", "t", "u", "v", "w", "x", "y", "z", "0", "1",
     "2", "3", "4", "5", "6", "7", "8", "9", "_"}

\* the position after the longest run of characters of C that starts at i
SkipWhile(s, i, C) ==
    LET stops == {j \in i..Len(s) : s[j] \notin C}
    IN  IF stops = {} THEN Len(s) + 1 ELSE Least(stops)

\* C*, after a match that ended before i
Star(s, i, C) == IF i = 0 THEN 0 ELSE SkipWhile(s, i, C)

\* C+, after a match that ended before i
Plus(s, i, C) ==
    IF i = 0 \/ i > Len(s) THEN 0
    ELSE IF s[i] \notin C THEN 0
    ELSE SkipWhile(s, i, C)

\* the literal lit, after a match that ended before i
Lit(s, i, lit) ==
    IF i = 0 THEN 0
    ELSE IF i + Len(lit) - 1 <= Len(s) /\ SubSeq(s, i, i + Len(lit) - 1) = lit
    THEN i + Len(lit)
    ELSE 0

\* (?:\.\w+)*, greedy, from i
RECURSIVE DottedRest(_, _)
DottedRest(s, i) ==
    LET j == Plus(s, Lit(s, i, <<".">>), WordChars)
    IN  IF j = 0 THEN i ELSE DottedRest(s, j)

\* \w+(?:\.\w+)*, after a match that ended before i
Dotted(s, i) ==
    LET j == Plus(s, i, WordChars)
    IN  IF j = 0 THEN 0 ELSE DottedRest(s, j)

\* (?:\s*,\s*\w+)*, greedy, from i
RECURSIVE CommaRest(_, _)
CommaRest(s, i) ==
    LET j == Plus(s, Star(s, Lit(s, Star(s, i, Whitespace), <<",">>),
                          Whitespace), WordChars)
    IN  IF j = 0 THEN i ELSE CommaRest(s, j)

\* \w+(?:\s*,\s*\w+)*, after a match that ended before i
CommaList(s, i) ==
    LET j == Plus(s, i, WordChars)
    IN  IF j = 0 THEN 0 ELSE CommaRest(s, j)

Str_import == <<"i", "m", "p", "o", "r", "t">>
Str_from == <<"f", "r", "o", "m">>
Str_as == <<"a", "s">>

\* ^\s*import\s+ : the position after it
ImportPrefix(line) ==
    Plus(line, Lit(line, Star(line, 1, Whitespace), Str_import), Whitespace)

\* ^\s*from\s+ : the position after it
FromPrefix(line) ==
    Plus(line, Lit(line, Star(line, 1, Whitespace), Str_from), Whitespace)

\* \s+import\s+ , after a match that ended before i
ImportWord(line, i) ==
    Plus(line, Lit(line, Plus(line, i, Whitespace), Str_import), Whitespace)

\* \s+as\s+\w+ , after a match that ended before i
AsAlias(line, i) ==
    Plus(line, Plus(line, Lit(line, Plus(line, i, Whitespace), Str_as),
                    Whitespace), WordChars)

\* re.findall of a pattern that matches from first, holds its group up to
\* group_end and ends at last: the groups found
Found(line, first, group_end, last) ==
    IF last = 0 THEN <<>> ELSE <<SubSeq(line, first, group_end - 1)>>

\* re.findall(import_patterns[k - 1], line, re.MULTILINE) for a line without
\* line feed
findall(k, line) ==
    LET i == ImportPrefix(line)
        f == FromPrefix(line)
        list_end == CommaList(line, i)
        import_end == Dotted(line, i)
        from_end == Dotted(line, f)
        from_import == ImportWord(line, from_end)
    IN  CASE k = 1 -> Found(line, i, list_end, list_end)
          [] k = 2 -> Found(line, f, from_end, from_import)
          [] k = 3 -> Found(line, f, from_end, Lit(line, from_import, <<"(">>))
          [] k = 4 -> Found(line, i, import_end, AsAlias(line, import_end))
          [] k = 5 -> Found(line, f, from_end,
                            AsAlias(line, Plus(line, from_import, WordChars)))

\* the number of import_patterns
NumPatterns == 5

\* a mutation of TopLevel: the dotted name as a whole
TopLevel_Whole(module) == strip(module)

\* module.strip().split('.')[0]
TopLevel(module) == split(strip(module), <<".">>)[1]

\* the names "for module in match.split(',')" adds to imports
ModulesOf(match) ==
    LET modules == split(match, <<",">>)
    IN  {TopLevel(modules[n]) : n \in 1..Len(modules)} \ {<<>>}

\* the names the body of "for line in lines" adds to imports
ImportsOfLine(line) ==
    IF startswith(strip(line), <<"#">>) THEN {}
    ELSE UNION {ModulesOf(findall(k, line)[1]) :
                   k \in {n \in 1..NumPatterns : findall(n, line) # <<>>}}

\* the names of std_lib
std_lib ==
    {<<"a", "b", "c">>, <<"a", "r", "g", "p", "a", "r", "s", "e">>,
     <<"a", "s", "y", "n", "c", "i", "o">>,
     <<"c", "o", "l", "l", "e", "c", "t", "i", "o", "n", "s">>,
     <<"c", "o", "n", "c", "u", "r", "r", "e", "n", "t">>,
     <<"c", "o", "n", "t", "e", "x", "t", "l", "i", "b">>,
     <<"c", "o", "p", "y">>, <<"c", "s", "v">>,
     <<"d", "a", "t", "e", "t", "i", "m", "e">>,
     <<"d", "e", "c", "i", "m", "a", "l">>, <<"e", "m", "a", "i", "l">>,
     <<"e", "n", "u", "m">>, <<"f", "u", "n", "c", "t", "o", "o", "l", "s">>,
     <<"g", "l", "o", "b">>, <<"h", "a", "s", "h", "l", "i", "b">>,
     <<"h", "t", "t", "p">>, <<"i", "m", "p", "o", "r", "t", "l", "i", "b">>,
     <<"i", "n", "s", "p", "e", "c", "t">>, <<"i", "o">>,
     <<"i", "t", "e", "r", "t", "o", "o", "l", "s">>, <<"j", "s", "o", "n">>,
     <<"l", "o", "g", "g", "i", "n", "g">>, <<"m", "a", "t", "h">>,
     <<"m", "u", "l", "t", "i", "p", "r", "o", "c", "e", "s", "s", "i", "n", "g">>,
     <<"o", "p", "e", "r", "a", "t", "o", "r">>, <<"o", "s">>,
     <<"p", "a", "t", "h", "l", "i", "b">>, <<"p", "i", "c", "k", "l", "e">>,
     <<"r", "a", "n", "d", "o", "m">>, <<"r", "e">>,
     <<"s", "h", "u", "t", "i", "l">>, <<"s", "i", "g", "n", "a", "l">>,
     <<"s", "o", "c", "k", "e", "t">>, <<"s", "q", "l", "i", "t", "e", "3">>,
     <<"s", "t", "a", "t", "i", "s", "t", "i", "c", "s">>,
     <<"s", "t", "r", "i", "n", "g">>,
     <<"s", "u", "b", "p", "r", "o", "c", "e", "s", "s">>, <<"s", "y", "s">>,
     <<"t", "e", "m", "p", "f", "i", "l", "e">>,
     <<"t", "h", "r", "e", "a", "d", "i", "n", "g">>, <<"t", "i", "m", "e">>,
     <<"t", "r", "a", "c", "e", "b", "a", "c", "k">>,
     <<"t", "y", "p", "i", "n", "g">>, <<"u", "u", "i", "d">>,
     <<"w", "a", "r", "n", "i", "n", "g", "s">>,
     <<"w", "e", "a", "k", "r", "e", "f">>, <<"x", "m", "l">>,
     <<"z", "i", "p", "f", "i", "l", "e">>}

\* the first line of the pair the contract names
Stmt_import_os_sys ==
    <<"i", "m", "p", "o", "r", "t", " ", "o", "s", ",", " ", "s", "y", "s">>

\* the second line of that pair
Stmt_from_numpy_linalg ==
    <<"f", "r", "o", "m", " ", "n", "u", "m", "p", "y", ".", "l", "i", "n",
      "a", "l", "g", " ", "i", "m", "p", "o", "r", "t", " ", "i", "n", "v">>

\* one aliased import
Stmt_import_alias ==
    <<"i", "m", "p", "o", "r", "t", " ", "n", "u", "m", "p", "y", " ", "a",
      "s", " ", "n", "p">>

\* a multi-import whose first name is dotted
Stmt_import_dotted_list ==
    <<"i", "m", "p", "o", "r", "t", " ", "o", "s", ".", "p", "a", "t", "h",
      ",", " ", "s", "y", "s">>

\* a multi-import whose first name is aliased
Stmt_import_alias_list ==
    <<"i", "m", "p", "o", "r", "t", " ", "n", "u", "m", "p", "y", " ", "a",
      "s", " ", "n", "p", ",", " ", "s", "y", "s">>

\* a multi-import whose last name is dotted
Stmt_import_list_dotted_last ==
    <<"i", "m", "p", "o", "r", "t", " ", "s", "y", "s", ",", " ", "n", "u",
      "m", "p", "y", ".", "l", "i", "n", "a", "l", "g">>

\* a multi-import with the blank before the comma
Stmt_import_tight_list ==
    <<"i", "m", "p", "o", "r", "t", " ", "o", "s", " ", ",", "s", "y", "s">>

\* an indented import
Stmt_import_indented ==
    <<" ", " ", "i", "m", "p", "o", "r", "t", " ", "s", "y", "s">>

\* one dotted import
Stmt_import_dotted ==
    <<"i", "m", "p", "o", "r", "t", " ", "n", "u", "m", "p", "y", ".", "l",
      "i", "n", "a", "l", "g">>

\* a comment
Stmt_comment ==
    <<"#", " ", "i", "m", "p", "o", "r", "t", " ", "o", "s">>

\* a from-import that opens a parenthesis
Stmt_from_paren ==
    <<"f", "r", "o", "m", " ", "o", "s", " ", "i", "m", "p", "o", "r", "t",
      " ", "(">>

\* a from-import with an alias
Stmt_from_alias ==
    <<"f", "r", "o", "m", " ", "n", "u", "m", "p", "y", " ", "i", "m", "p",
      "o", "r", "t", " ", "i", "n", "v", " ", "a", "s", " ", "n", "p">>

\* a relative from-import
Stmt_from_relative ==
    <<"f", "r", "o", "m", " ", ".", " ", "i", "m", "p", "o", "r", "t", " ",
      "i", "n", "v">>

\* a word that begins with import
Stmt_imports ==
    <<"i", "m", "p", "o", "r", "t", "s", " ", "s", "y", "s">>

\* an empty line
Stmt_blank ==
    <<>>

\* the lines the source texts are made of
Statements ==
    {Stmt_import_os_sys, Stmt_from_numpy_linalg, Stmt_import_alias,
     Stmt_import_dotted_list, Stmt_import_alias_list,
     Stmt_import_list_dotted_last, Stmt_import_tight_list,
     Stmt_import_indented, Stmt_import_dotted, Stmt_comment, Stmt_from_paren,
     Stmt_from_alias, Stmt_from_relative, Stmt_imports, Stmt_blank}

\* extract_imports_from_python_content(content)
extract_imports_from_python_content(text) ==
    LET lines == split(text, <<"\n">>)
        found == UNION {ImportsOfLine(lines[n]) : n \in 1..Len(lines)}
    IN  {<<imp, imp \in std_lib>> : imp \in found}

\* the lines of a source text, one after the other with "\n" between them
RECURSIVE JoinLines(_)
JoinLines(ls) ==
    IF ls = <<>> THEN <<>>
    ELSE IF Len(ls) = 1 THEN ls[1]
    ELSE ls[1] \o <<"\n">> \o JoinLines(Tail(ls))

\* the source texts handed in: at most MaxLines lines
SourceTexts ==
    {JoinLines(ls) : ls \in UNION {[1..n -> Statements] : n \in 0..MaxLines}}

ImportInit ==
    /\ i_pc = "call"
    /\ py_content \in SourceTexts
    /\ imports = {}
    /\ ParseIdle /\ AggIdle /\ ProtoIdle
    /\ RLIdle
    /\ ListingIdle
    /\ FileIdle
    /\ TreeIdle

\* extract_imports_from_python_content(py_content)
ExtractImports ==
    /\ i_pc = "call"
    /\ i_pc' = "returned"
    /\ imports' = extract_imports_from_python_content(py_content)
    /\ UNCHANGED py_content
    /\ UNCHANGED <<rlVars, listVars, fileVars, treeVars, parseVars>>
    /\ UNCHANGED <<aggVars, protoVars>>

ImportNext == ExtractImports

\* one call of extract_imports_from_python_content
SpecImport == ImportInit /\ [][ImportNext]_vars

-----------------------------------------------------------------------------
(***************************************************************************)
(* find_python_project_files of fr10.py, for one repository of repos.      *)
(* What get_repository_branches, get_branch_tree and                       *)
(* get_python_file_content did is taken from the outcomes these functions  *)
(* have, with the sleeps they made; find_file_in_branch is run on the      *)
(* response to its request.  The clock is read in whole ticks.             *)
(***************************************************************************)

max_files == 50

\* the three files looked for in a branch, in the order of the lookups
ManifestFiles == <<"requirements.txt", "pyproject.toml", "setup.py">>

\* what the API holds for a manifest file: the text 'a', an empty file, or
\* nothing
ManifestResponses ==
    { FileResponse(200, <<>>, FileObject("base64", Content(<<"Y", "Q", "=", "=">>))),
      FileResponse(200, <<>>, FileObject("base64", Content(<<>>))),
      NotFound }

\* the character of a code point of the manifest contents
Chr(code_point) ==
    CASE code_point = 97 -> "a"
      [] code_point = 61 -> "="
      [] code_point = 32 -> " "
      [] code_point = 10 -> "\n"

\* a decoded text as a sequence of characters
Characters(code_points) == [n \in 1..Len(code_points) |-> Chr(code_points[n])]

\* the truth value Python gives to what find_file_in_branch,
\* get_python_file_content returned: None and '' are false
TruthyValue(v) == v.kind = "str" /\ v.text # <<>>

\* branch_data as it is built for a branch
NewBranchData ==
    [has_pyproject |-> FALSE, has_requirements |-> FALSE, has_setup_py |-> FALSE,
     requirements_content |-> NoneValue, requirements_packages |-> <<>>,
     pyproject_content |-> NoneValue, python_imports |-> {},
     python_files_analyzed |-> FALSE]

\* branch_data after the lookup of file returned value
WithManifest(data, file, value) ==
    IF ~ TruthyValue(value) THEN data
    ELSE CASE file = "requirements.txt" ->
                [data EXCEPT !.has_requirements = TRUE,
                             !.requirements_content = value,
                             !.requirements_packages =
                                 RequirementsLoop(
                                     splitlines(Characters(value.text)), 1, <<>>)]
           [] file = "pyproject.toml" ->
                [data EXCEPT !.has_pyproject = TRUE,
                             !.pyproject_content = value]
           [] file = "setup.py" ->
                [data EXCEPT !.has_setup_py = TRUE]

\* a mutation of HasManifest: requirements.txt alone counts
HasManifest_Requirements(data) == data.has_requirements

\* one of the three manifests was found in the branch
HasManifest(data) ==
    data.has_pyproject \/ data.has_requirements \/ data.has_setup_py

\* if repo.get('language') == 'Python' or branch_data['has_pyproject'] or ...
LooksLikePython(lang, data) == lang = "Python" \/ HasManifest(data)

\* a mutation of PythonFilesAnalyzed: no limit on the files of a scan
PythonFilesAnalyzed_All(python_files) == python_files

\* python_files[:max_files]
PythonFilesAnalyzed(python_files) ==
    SubSeq(python_files, 1, Min(Len(python_files), max_files))

\* what get_python_file_content does for file i of a scan, by plan: it
\* raises at file plan.raise_at, returns None after a rate-limit pause at
\* file plan.pause_at, and returns plan.value otherwise
ContentFor(plan, i) ==
    IF plan.raise_at = i THEN Raises
    ELSE IF plan.pause_at = i THEN Returns(NoneValue)
    ELSE Returns(plan.value)

\* a response that handle_rate_limiting takes for a pause
RateLimited ==
    [status_code |-> 403,
     text |-> <<"API", "rate", "limit", "exceeded", "for", "user">>,
     headers |-> [remaining |-> Header(<<"0">>), reset |-> Header(<<"5">>)]]

\* the clock after a rate-limit pause begun at clock reading t
AfterPause(t) == t + handle_rate_limiting(RateLimited, t).wait

\* the clock after the attempts of get_branch_tree that slept, from attempt
\* a on: events names, for each of them, the back-off of the except clause
\* or the pause of handle_rate_limiting
RECURSIVE TreeClock(_, _, _)
TreeClock(t, events, a) ==
    IF events = <<>> THEN t
    ELSE TreeClock(IF Head(events) = "backoff" THEN t + Backoff(a)
                   ELSE AfterPause(t),
                   Tail(events), a + 1)

\* the clock after a scan begun at clock reading t: the sleeps of
\* get_branch_tree, the pause of the content request of the first file, and
\* time.sleep(0.1) after each file read
ScanClock(t, done) ==
    LET walked == TreeClock(t, done.events, 0)
        asked == IF done.paused THEN AfterPause(walked) ELSE walked
    IN  asked + (done.processed_files * Resolution) \div 10

\* analyze_python_files_in_branch, from what get_branch_tree did on: the
\* imports returned, the number of files whose content was requested, and
\* what decides the sleeps of the scan
analyze_python_files_in_branch(tree, plan) ==
    IF tree.raised
    THEN [raised |-> TRUE, imports |-> {}, requested |-> 0,
          events |-> tree.events, paused |-> FALSE, processed_files |-> 0]
    ELSE LET python_files == PythonFilesAnalyzed(tree.value.files)
             with_path == {i \in 1..Len(python_files) : python_files[i].path # <<>>}
             raised == \E i \in with_path : ContentFor(plan, i).raised
             asked == {i \in with_path :
                          \A j \in with_path : j < i => ~ ContentFor(plan, j).raised}
             read == {i \in asked : /\ ~ ContentFor(plan, i).raised
                                    /\ TruthyValue(ContentFor(plan, i).value)}
         IN  [raised |-> raised,
              imports |-> UNION {extract_imports_from_python_content(
                                     ContentFor(plan, i).value.text) : i \in read},
              requested |-> Cardinality(asked),
              events |-> tree.events,
              paused |-> plan.pause_at \in asked,
              processed_files |-> Cardinality(read)]

\* n Python files of a tree; the first has no path when pathless
PythonFiles(n, pathless) ==
    [i \in 1..n |->
        PyFile(TreeItem("blob", IF pathless /\ i = 1 THEN <<>>
                                ELSE <<"m">> \o Str_py))]

\* the attempts of get_branch_tree that slept: none, or all max_retries of
\* them in the except clause
TreeEvents == {<<>>, <<"backoff", "backoff", "backoff">>}

\* what get_branch_tree did, and the attempts that slept
TreeDid(outcome, events) ==
    [raised |-> outcome.raised, value |-> outcome.value, events |-> events]

TreeOutcomes ==
    {TreeDid(outcome, events) :
        outcome \in {Raises}
            \cup {Returns(ListValue(PythonFiles(n, FALSE))) :
                     n \in {0, 1, max_files, max_files + 1}}
            \cup {Returns(ListValue(PythonFiles(2, TRUE)))},
        events \in TreeEvents}

\* what get_python_file_content did for the files of a scan
ContentPlans ==
    [value : {NoneValue, TextValue(<<>>), TextValue(Stmt_import_os_sys),
              TextValue(Stmt_comment)},
     raise_at : {0, 2},
     pause_at : {0, 1}]

\* the answers to the request of get_repository_branches: the page of the
\* branches, another status, or a body that is not JSON
BranchAnswers ==
    {[status_code |-> 200, text |-> <<>>, json |-> "list"],
     [status_code |-> 404, text |-> <<"Not", "Found">>, json |-> "object"],
     [status_code |-> 200, text |-> <<>>, json |-> "malformed"]}

\* the clock after k rate-limit pauses of get_repository_branches
RECURSIVE BranchesClock(_, _)
BranchesClock(t, k) ==
    IF k = 0 THEN t ELSE BranchesClock(AfterPause(t), k - 1)

Languages == {"Python", "Go"}

\* what analyze_python_files_in_branch can do on these
ScanOutcomes ==
    {analyze_python_files_in_branch(tree, plan) :
         tree \in TreeOutcomes, plan \in ContentPlans}

\* the answers of an API that sends no rate-limit header
SteadyHeaders == {[remaining |-> NoHeader, reset |-> NoHeader]}

\* what analyze_python_files_in_branch can do when every request is answered
\* at once: get_branch_tree returns without sleeping and no content request
\* raises or is taken for a pause
SteadyScanOutcomes ==
    {analyze_python_files_in_branch(tree, plan) :
         tree \in {t \in TreeOutcomes : ~ t.raised /\ t.events = <<>>},
         plan \in {c \in ContentPlans : c.raise_at = 0 /\ c.pause_at = 0}}

\* a mutation of HasPythonFiles: the last branch checked decides
HasPythonFiles_Last(has, kept) == kept

\* repo_data['has_python_files'] after a branch: set to True when the branch
\* is kept, and never set back
HasPythonFiles(has, kept) == has \/ kept

AggInit ==
    /\ a_pc = "branches"
    /\ language \in Languages
    /\ branches_left \in 0..MaxBranches
    /\ a_log = <<>>
    /\ branch_data = <<>>
    /\ scan = <<>>
    /\ repo_branches = <<>>
    /\ has_python_files = FALSE
    /\ python_repos = <<>>
    /\ ParseIdle /\ ImportIdle /\ ProtoIdle
    /\ RLIdle
    /\ ListingIdle
    /\ FileIdle
    /\ TreeIdle

\* branches = get_repository_branches(repo_full_name): the requests taken
\* for a pause, then the one that ends the loop or raises; branches_left is
\* the number of branches the API holds
GetRepositoryBranchesOn(paused, answers, headers) ==
    /\ a_pc = "branches"
    /\ \E k \in paused, data \in answers, h \in headers :
         LET asked == BranchesClock(now, k)
             out == handle_rate_limiting(ResponseOf(data, h), asked)
         IN  /\ ~ out.ret
             /\ now' = asked
             /\ IF out.raised \/ (data.status_code = 200 /\ data.json = "malformed")
                THEN /\ a_pc' = "raised"
                     /\ UNCHANGED branches_left
                ELSE /\ a_pc' = "branch"
                     /\ branches_left' = IF data.status_code = 200
                                         THEN branches_left ELSE 0
    /\ UNCHANGED <<language, a_log, branch_data, scan, repo_branches,
                   has_python_files, python_repos>>
    /\ UNCHANGED <<response, rl_pc, rl_ret, rl_slept>>
    /\ UNCHANGED <<listVars, fileVars, treeVars, parseVars, importVars, protoVars>>

GetRepositoryBranches == GetRepositoryBranchesOn(0..1, BranchAnswers, LoopHeaders)

\* requests.get in get_repository_branches raises a RequestException, after
\* the requests taken for a pause
BranchListingFails ==
    /\ a_pc = "branches"
    /\ a_pc' = "raised"
    /\ \E k \in 0..1 : now' = BranchesClock(now, k)
    /\ UNCHANGED <<language, branches_left, a_log, branch_data, scan,
                   repo_branches, has_python_files, python_repos>>
    /\ UNCHANGED <<response, rl_pc, rl_ret, rl_slept>>
    /\ UNCHANGED <<listVars, fileVars, treeVars, parseVars, importVars, protoVars>>

\* "for branch in branches": branch_data = {...}
BeginBranch ==
    /\ a_pc = "branch"
    /\ branches_left > 0
    /\ a_pc' = ManifestFiles[1]
    /\ branch_data' = NewBranchData
    /\ a_log' = <<>>
    /\ scan' = [ran |-> FALSE, requested |-> 0]
    /\ UNCHANGED <<language, branches_left, repo_branches, has_python_files,
                   python_repos>>
    /\ UNCHANGED <<rlVars, listVars, fileVars, treeVars, parseVars, importVars,
                   protoVars>>

\* the file of ManifestFiles looked up after file, or the scan
AfterManifest(file) ==
    CASE file = ManifestFiles[1] -> ManifestFiles[2]
      [] file = ManifestFiles[2] -> ManifestFiles[3]
      [] file = ManifestFiles[3] -> "scan"

\* find_file_in_branch(repo_full_name, branch_name, a_pc) and the "if" on
\* what it returned, the response being one of responses with headers of
\* headers
FindManifestOn(responses, headers) ==
    /\ a_pc \in {ManifestFiles[n] : n \in 1..Len(ManifestFiles)}
    /\ \E data \in responses, h \in headers :
         LET out == handle_rate_limiting(ResponseOf(data, h), now)
             res == find_file_in_branch(data, out)
         IN  /\ a_log' = Append(a_log, [file |-> a_pc, data |-> data,
                                        paused |-> out.ret, raised |-> out.raised])
             /\ now' = now + out.wait
             /\ IF res.raised
                THEN /\ a_pc' = "raised"
                     /\ UNCHANGED branch_data
                ELSE /\ a_pc' = AfterManifest(a_pc)
                     /\ branch_data' = WithManifest(branch_data, a_pc, res.value)
    /\ UNCHANGED <<language, branches_left, scan, repo_branches,
                   has_python_files, python_repos>>
    /\ UNCHANGED <<response, rl_pc, rl_ret, rl_slept>>
    /\ UNCHANGED <<listVars, fileVars, treeVars, parseVars, importVars, protoVars>>

FindManifest == FindManifestOn(ManifestResponses, LoopHeaders)

\* requests.get in find_file_in_branch raises a RequestException
ManifestRequestFails ==
    /\ a_pc \in {ManifestFiles[n] : n \in 1..Len(ManifestFiles)}
    /\ a_pc' = "raised"
    /\ UNCHANGED <<language, branches_left, a_log, branch_data, scan,
                   repo_branches, has_python_files, python_repos>>
    /\ UNCHANGED <<rlVars, listVars, fileVars, treeVars, parseVars, importVars,
                   protoVars>>

\* the branch that looks like a Python project: the import scan, whose
\* outcome is one of outcomes, and the branch is kept if the scan or the
\* lookups found something
AnalyzeBranchOn(outcomes) ==
    /\ a_pc = "scan"
    /\ LooksLikePython(language, branch_data)
    /\ \E done \in outcomes :
         LET data == [branch_data EXCEPT !.python_imports = done.imports,
                                         !.python_files_analyzed = TRUE]
             kept == done.imports # {} \/ HasManifest(data)
         IN  /\ scan' = [ran |-> TRUE, requested |-> done.requested]
             /\ now' = ScanClock(now, done)
             /\ IF done.raised
                THEN /\ a_pc' = "raised"
                     /\ UNCHANGED <<branch_data, branches_left, repo_branches,
                                    has_python_files>>
                ELSE /\ a_pc' = "branch"
                     /\ branch_data' = data
                     /\ branches_left' = branches_left - 1
                     /\ repo_branches' = IF kept THEN Append(repo_branches, data)
                                         ELSE repo_branches
                     /\ has_python_files' = HasPythonFiles(has_python_files, kept)
    /\ UNCHANGED <<language, a_log, python_repos>>
    /\ UNCHANGED <<response, rl_pc, rl_ret, rl_slept>>
    /\ UNCHANGED <<listVars, fileVars, treeVars, parseVars, importVars, protoVars>>

AnalyzeBranch == AnalyzeBranchOn(ScanOutcomes)

\* the branch that does not look like a Python project is skipped
SkipBranch ==
    /\ a_pc = "scan"
    /\ ~ LooksLikePython(language, branch_data)
    /\ a_pc' = "branch"
    /\ branches_left' = branches_left - 1
    /\ UNCHANGED <<language, a_log, branch_data, scan, repo_branches,
                   has_python_files, python_repos>>
    /\ UNCHANGED <<rlVars, listVars, fileVars, treeVars, parseVars, importVars,
                   protoVars>>

\* after the last branch: "if repo_data['has_python_files']", and the return
EndRepository ==
    /\ a_pc = "branch"
    /\ branches_left = 0
    /\ a_pc' = "returned"
    /\ python_repos' =
         IF has_python_files
         THEN Append(python_repos,
                     [language |-> language, branches |-> repo_branches,
                      has_python_files |-> has_python_files])
         ELSE python_repos
    /\ UNCHANGED <<language, branches_left, a_log, branch_data, scan,
                   repo_branches, has_python_files>>
    /\ UNCHANGED <<rlVars, listVars, fileVars, treeVars, parseVars, importVars,
                   protoVars>>

AggNext ==
    \/ GetRepositoryBranches
    \/ BranchListingFails
    \/ BeginBranch
    \/ FindManifest
    \/ ManifestRequestFails
    \/ AnalyzeBranch
    \/ SkipBranch
    \/ EndRepository

\* find_python_project_files on a list of one repository
SpecAgg == AggInit /\ [][AggNext]_vars

\* the same call for a repository of up to MaxSteadyBranches branches
SteadyInit ==
    /\ a_pc = "branches"
    /\ language \in Languages
    /\ branches_left \in 0..MaxSteadyBranches
    /\ a_log = <<>>
    /\ branch_data = <<>>
    /\ scan = <<>>
    /\ repo_branches = <<>>
    /\ has_python_files = FALSE
    /\ python_repos = <<>>
    /\ ParseIdle /\ ImportIdle /\ ProtoIdle
    /\ RLIdle
    /\ ListingIdle
    /\ FileIdle
    /\ TreeIdle

\* get_repository_branches answered at once with the page of the branches
GetRepositoryBranchesSteady ==
    GetRepositoryBranchesOn({0}, {a \in BranchAnswers : a.json = "list"},
                            SteadyHeaders)

\* a lookup answered at once
FindManifestSteady == FindManifestOn(ManifestResponses, SteadyHeaders)

\* a scan whose requests are all answered at once
AnalyzeBranchSteady == AnalyzeBranchOn(SteadyScanOutcomes)

SteadyNext ==
    \/ GetRepositoryBranchesSteady
    \/ BeginBranch
    \/ FindManifestSteady
    \/ AnalyzeBranchSteady
    \/ SkipBranch
    \/ EndRepository

\* find_python_project_files on a list of one repository, every request
\* being answered at once
SpecSteady == SteadyInit /\ [][SteadyNext]_vars

-----------------------------------------------------------------------------
(* find_python_project_files of prototype.py *)

\* handle_rate_limiting of prototype.py for a response r read at clock
\* reading t (ticks): whether it raised, the value returned and the ticks
\* slept
prototype_handle_rate_limiting(r, t) ==
    IF ~ r.headers.remaining.present
    THEN RateLimitOutcome(FALSE, FALSE, 0)
    ELSE IF ~ PyIntOk(r.headers.remaining.value)
    THEN RateLimitOutcome(TRUE, FALSE, 0)
    ELSE LET remaining == PyInt(r.headers.remaining.value)
         IN  IF remaining = 0
                \/ (r.status_code = 403 /\ ContainsRateLimitExceeded(Lower(r.text)))
             THEN IF r.headers.reset.present /\ ~ PyIntOk(r.headers.reset.value)
                  THEN RateLimitOutcome(TRUE, FALSE, 0)
                  ELSE LET reset_time ==
                               IF r.headers.reset.present
                               THEN PyInt(r.headers.reset.value)
                               ELSE (t \div Resolution) + DefaultResetDelay
                           wait_time ==
                               Max(reset_time * Resolution - t, 0) + Resolution
                       IN  RateLimitOutcome(FALSE, TRUE, wait_time)
             ELSE RateLimitOutcome(FALSE, FALSE, 0)

\* the status line, text and headers of the answers to a contents request
ContentsResponses ==
    [status_code : {200, 403, 404},
     text : {<<>>, <<"API", "rate", "limit", "exceeded", "for", "user">>},
     headers : [remaining : {NoHeader, Header(<<"0">>), Header(<<"5">>),
                             Header(<<"x">>)},
                reset : {NoHeader, Header(<<"0">>), Header(<<"x">>)}]]

\* the file names a root listing is made of
RootNames == {"pyproject.toml", "requirements.txt", "setup.py"}

\* contents_response.json(): a directory listing, an object, or a body
\* that is not JSON
ContentsBodies ==
    {[kind |-> "list", names |-> S] : S \in SUBSET RootNames}
        \cup {[kind |-> "dict", names |-> {}], [kind |-> "malformed", names |-> {}]}

\* what the request for a listed file brings: its decoded text, nothing
\* (another status or encoding), or an exception
FileFetched(text) == [kind |-> "str", text |-> text]
FileFetchRaised == [kind |-> "raised"]

RequirementsFetches ==
    {FileFetched(Line_pinned), FileFetched(<<>>), NoneValue, FileFetchRaised}

PyprojectFetches == {FileFetched(<<"a">>), NoneValue, FileFetchRaised}

\* any(item.get('name') == name for item in contents)
HasName(contents, name) == name \in contents.names

\* the dictionary appended to python_repos
PythonRepo(repo_name, contents, req_content, pyproject_content) ==
    [name |-> repo_name,
     has_pyproject |-> HasName(contents, "pyproject.toml"),
     has_requirements |-> HasName(contents, "requirements.txt"),
     has_setup_py |-> HasName(contents, "setup.py"),
     requirements_content |-> req_content,
     requirements_packages |->
         IF req_content = NoneValue THEN <<>>
         ELSE RequirementsLoop(splitlines(req_content.text), 1, <<>>),
     pyproject_content |-> pyproject_content]

\* has_pyproject or has_requirements or has_setup_py
HasProjectFile(contents) == contents.names # {}

\* one contents request entered in the log
ContentsRequest(repo_name, taken) == [repo |-> repo_name, taken |-> taken]

ProtoInit ==
    /\ q_pc = "loop"
    /\ \E n \in 1..MaxRepos : q_repos = [i \in 1..n |-> i]
    /\ q_iter = 0
    /\ q_index = 0
    /\ q_log = <<>>
    /\ q_python_repos = <<>>
    /\ q_now \in 0..1
    /\ RLIdle /\ ListingIdle /\ FileIdle /\ TreeIdle
    /\ ParseIdle /\ ImportIdle /\ AggIdle

\* one pass of the loop whose contents request is taken for a rate-limit
\* pause: sleep, index -= 1, continue
PausedRepository ==
    /\ q_pc = "loop"
    /\ q_iter < Len(q_repos)
    /\ \E r \in ContentsResponses :
         LET out == prototype_handle_rate_limiting(r, q_now)
         IN  /\ ~ out.raised
             /\ out.ret
             /\ q_now' = q_now + out.wait
    /\ q_iter' = q_iter + 1
    /\ q_index' = (q_iter + 1) - 1
    /\ q_log' = Append(q_log, ContentsRequest(q_repos[q_iter + 1], "paused"))
    /\ UNCHANGED <<q_pc, q_repos, q_python_repos>>
    /\ UNCHANGED <<rlVars, listVars, fileVars, treeVars, parseVars, importVars,
                   aggVars>>

\* one pass of the loop in which int() refuses a header: the exception
\* leaves the function
HeaderRefused ==
    /\ q_pc = "loop"
    /\ q_iter < Len(q_repos)
    /\ \E r \in ContentsResponses :
         prototype_handle_rate_limiting(r, q_now).raised
    /\ q_pc' = "raised"
    /\ q_iter' = q_iter + 1
    /\ q_index' = q_iter + 1
    /\ q_log' = Append(q_log, ContentsRequest(q_repos[q_iter + 1], "raised"))
    /\ UNCHANGED <<q_repos, q_python_repos, q_now>>
    /\ UNCHANGED <<rlVars, listVars, fileVars, treeVars, parseVars, importVars,
                   aggVars>>

\* one pass of the loop whose contents request is answered by another status
\* than 200
InaccessibleRepository ==
    /\ q_pc = "loop"
    /\ q_iter < Len(q_repos)
    /\ \E r \in ContentsResponses :
         LET out == prototype_handle_rate_limiting(r, q_now)
         IN  /\ ~ out.raised
             /\ ~ out.ret
             /\ r.status_code # 200
    /\ q_iter' = q_iter + 1
    /\ q_index' = q_iter + 1
    /\ q_log' = Append(q_log, ContentsRequest(q_repos[q_iter + 1], "inaccessible"))
    /\ UNCHANGED <<q_pc, q_repos, q_python_repos, q_now>>
    /\ UNCHANGED <<rlVars, listVars, fileVars, treeVars, parseVars, importVars,
                   aggVars>>

\* one pass of the loop whose contents request is answered by 200: the
\* listing is searched for the project files, the files found are fetched
\* and the repository is appended if it has one of them
EvaluateRepository ==
    /\ q_pc = "loop"
    /\ q_iter < Len(q_repos)
    /\ \E r \in ContentsResponses :
         LET out == prototype_handle_rate_limiting(r, q_now)
         IN  /\ ~ out.raised
             /\ ~ out.ret
             /\ r.status_code = 200
    /\ \E contents \in ContentsBodies :
       \E requirements \in
              IF contents.kind = "list" /\ HasName(contents, "requirements.txt")
              THEN RequirementsFetches ELSE {NoneValue} :
       \E pyproject \in
              IF contents.kind = "list" /\ HasName(contents, "pyproject.toml")
                 /\ requirements # FileFetchRaised
              THEN PyprojectFetches ELSE {NoneValue} :
         LET repo_name == q_repos[q_iter + 1]
             taken ==
                 CASE contents.kind = "malformed" -> "error"
                   [] contents.kind = "dict" -> "unexpected"
                   [] requirements = FileFetchRaised -> "error"
                   [] pyproject = FileFetchRaised -> "error"
                   [] OTHER -> "evaluated"
         IN  /\ q_log' = Append(q_log, ContentsRequest(repo_name, taken))
             /\ q_python_repos' =
                    IF taken = "evaluated" /\ HasProjectFile(contents)
                    THEN Append(q_python_repos,
                                PythonRepo(repo_name, contents, requirements,
                                           pyproject))
                    ELSE q_python_repos
    /\ q_iter' = q_iter + 1
    /\ q_index' = q_iter + 1
    /\ UNCHANGED <<q_pc, q_repos, q_now>>
    /\ UNCHANGED <<rlVars, listVars, fileVars, treeVars, parseVars, importVars,
                   aggVars>>

\* the list is exhausted: return python_repos
ReturnPythonRepos ==
    /\ q_pc = "loop"
    /\ q_iter = Len(q_repos)
    /\ q_pc' = "returned"
    /\ UNCHANGED <<q_repos, q_iter, q_index, q_log, q_python_repos, q_now>>
    /\ UNCHANGED <<rlVars, listVars, fileVars, treeVars, parseVars, importVars,
                   aggVars>>

ProtoNext ==
    \/ PausedRepository
    \/ HeaderRefused
    \/ InaccessibleRepository
    \/ EvaluateRepository
    \/ ReturnPythonRepos

SpecProto == ProtoInit /\ [][ProtoNext]_vars

-----------------------------------------------------------------------------
(* Properties of handle_rate_limiting, checked under SpecRL *)

\* the clock reading at which the call was made
CallTime == now - rl_slept

Called == rl_pc # "call"

RemainingIs(n) ==
    /\ response.headers.remaining.present
    /\ PyIntOk(response.headers.remaining.value)
    /\ PyInt(response.headers.remaining.value) = n

RemainingNonZero ==
    /\ response.headers.remaining.present
    /\ PyIntOk(response.headers.remaining.value)
    /\ PyInt(response.headers.remaining.value) # 0

\* X-RateLimit-Reset is a number equal to the call time plus n seconds
ResetIsCallTimePlus(n) ==
    /\ response.headers.reset.present
    /\ PyIntOk(response.headers.reset.value)
    /\ PyInt(response.headers.reset.value) * Resolution = CallTime + n * Resolution

\* the response signals a quota-exceeded condition
SignalsQuotaExceeded ==
    response.status_code = 403 /\ ContainsRateLimitExceeded(Lower(response.text))

BlockedAtLeastFiveSeconds ==
    RemainingIs(0) /\ ResetIsCallTimePlus(5)
        => rl_pc = "returned" /\ rl_ret /\ rl_slept >= 5 * Resolution

ReturnedFalseAtOnce == rl_pc = "returned" /\ ~ rl_ret /\ rl_slept = 0

\* C6 as stated: remaining=0 and reset=now+5 blocks for at least 5 seconds and
\* returns True; every response whose remaining count is non-zero returns
\* False at once, whatever its status and body.
RateLimiterIgnoresStatusAndBody ==
    Called => /\ BlockedAtLeastFiveSeconds
              /\ (RemainingNonZero => ReturnedFalseAtOnce)

\* C6 amended: remaining=0 and reset=now+5 blocks for at least 5 seconds and
\* returns True; every response whose remaining count is non-zero and that
\* does not signal quota-exceeded (status 403 with 'rate limit exceeded' in
\* the body) returns False at once.
RateLimiterPassesWithQuotaLeft ==
    Called => /\ BlockedAtLeastFiveSeconds
              /\ (RemainingNonZero /\ ~ SignalsQuotaExceeded => ReturnedFalseAtOnce)

\* C6 witness: a 403 response with 50 requests remaining whose body is not
\* the quota message was passed through without blocking.
PassedForbiddenWithQuotaLeft ==
    /\ Called
    /\ RemainingIs(50)
    /\ response.status_code = 403
    /\ response.text = <<"Not", "Found">>
    /\ ReturnedFalseAtOnce

HeaderWellFormed(h) == h.present => PyIntOk(h.value)

\* the reset epoch (seconds) the wait is computed from
ResetEpoch ==
    IF response.headers.reset.present
    THEN PyInt(response.headers.reset.value)
    ELSE (CallTime \div Resolution) + DefaultResetDelay

\* C7: every response whose remaining quota is zero or that signals
\* quota-exceeded, with any combination of (numeric) rate-limit headers present
\* or absent, blocks for exactly max(reset_epoch - now, 0) + 1 seconds and
\* returns True.
QuotaAlwaysResolvedByWaiting ==
    /\ Called
    /\ HeaderWellFormed(response.headers.remaining)
    /\ HeaderWellFormed(response.headers.reset)
    /\ (RemainingIs(0) \/ SignalsQuotaExceeded)
    => /\ rl_pc = "returned"
       /\ rl_ret
       /\ rl_slept = Max(ResetEpoch * Resolution - CallTime, 0) + Resolution

\* C8: handle_rate_limiting never raises: every call ends by returning True or
\* False, whatever the rate-limit header values are.
RateLimiterNeverRaises == rl_pc # "raised"

-----------------------------------------------------------------------------
(* Properties of get_all_org_repos and get_repository_branches, checked
   under SpecListing *)

Last(seq) == seq[Len(seq)]

\* the pages the API has answered with so far
ServedKeys == DOMAIN served

\* the pages received with status 200 so far
ReceivedKeys == {k \in ServedKeys : served[k].status_code = 200}

\* the entry is what the API delivered at the place it is tagged with
WasDelivered(x) ==
    /\ <<x.src[1], x.src[2]>> \in ReceivedKeys
    /\ x.src[3] \in 1..Len(served[<<x.src[1], x.src[2]>>].body)
    /\ served[<<x.src[1], x.src[2]>>].body[x.src[3]] = Repo(x.name, x.owner)

\* the distinct names over all pages delivered so far
DeliveredNames ==
    UNION { NamesOf(served[k].body) : k \in ReceivedKeys }

\* delivery order of pages: endpoint, then page
PageBefore(a, b) == a[1] < b[1] \/ (a[1] = b[1] /\ a[2] < b[2])

\* the owner filter of endpoint e lets an entry of this owner through
PassesOrgFilter(e, owner) == ~ IsUserRepos(e) \/ owner = "ORG"

NoDuplicateNames == Cardinality(NamesOf(all_repos)) = Len(all_repos)

EveryRepoWasDelivered ==
    /\ \A i \in 1..Len(all_repos) : WasDelivered(all_repos[i])
    /\ Len(all_repos) <= Cardinality(DeliveredNames)

\* the names page k delivered (when orgOnly: in entries the owner filter of
\* its endpoint lets through)
NamesDeliveredIn(k, orgOnly) ==
    { served[k].body[j].name :
        j \in {n \in 1..Len(served[k].body) :
                 orgOnly => PassesOrgFilter(k[1], served[k].body[n].owner)} }

\* the places in all_repos of the entries taken from page k
KeptFrom(k) ==
    {i \in 1..Len(all_repos) : <<all_repos[i].src[1], all_repos[i].src[2]>> = k}

\* the places of a page body whose entry has no entry of its name before it in
\* the body (counting, when filtered, only the entries owned by ORG)
FirstPlaces(body, filtered) ==
    {n \in 1..Len(body) :
        /\ filtered => body[n].owner = "ORG"
        /\ \A j \in 1..(n - 1) :
              (filtered => body[j].owner = "ORG") => body[j].name # body[n].name}

\* FirstPlaces of every page body the API may answer with
FirstPlacesOf ==
    [b \in {d.body : d \in ListingPages}, filtered \in BOOLEAN |->
        FirstPlaces(b, filtered)]

\* no entry of all_repos has an entry of its name delivered before it, in an
\* earlier page or earlier in its own page (counting, when orgOnly, only the
\* entries the owner filter lets through)
KeptIsFirstDelivered(orgOnly) ==
    \A q \in ReceivedKeys :
        /\ {all_repos[i].name : i \in KeptFrom(q)}
             \cap UNION { NamesDeliveredIn(k, orgOnly) :
                            k \in {r \in ReceivedKeys : PageBefore(r, q)} } = {}
        /\ {all_repos[i].src[3] : i \in KeptFrom(q)}
             \subseteq FirstPlacesOf[served[q].body, orgOnly /\ IsUserRepos(q[1])]

\* all_repos and its next value agree wherever both have an entry
EntriesKeptInPlace ==
    \A i \in 1..Min(Len(all_repos), Len(all_repos')) : all_repos'[i] = all_repos[i]

\* C1 as stated: all_repos holds no two entries of one name, every entry of it
\* was delivered in some page (so it is no longer than the number of distinct
\* names delivered), the entry kept for a name is the first one delivered, and
\* existing entries are never replaced or reordered.
FirstDeliveredKept ==
    /\ [](fn = "get_all_org_repos" =>
            NoDuplicateNames /\ EveryRepoWasDelivered /\ KeptIsFirstDelivered(FALSE))
    /\ [][EntriesKeptInPlace]_vars

\* C1 amended: all_repos holds no two entries of one name, every entry of it
\* was delivered in some page (so it is no longer than the number of distinct
\* names delivered), the entry kept for a name is the first one delivered that
\* passes the owner filter of its endpoint (an entry of user/repos owned by
\* another account is dropped before the duplicate check), and existing
\* entries are never replaced or reordered.
FirstOrgOwnedDeliveredKept ==
    /\ [](fn = "get_all_org_repos" =>
            NoDuplicateNames /\ EveryRepoWasDelivered /\ KeptIsFirstDelivered(TRUE))
    /\ [][EntriesKeptInPlace]_vars

\* C1 witness: the second endpoint delivered, in one page, an entry of another
\* owner and two entries of ORG under one name that the first endpoint had not
\* delivered; one entry of that name was kept.
DuplicatesDroppedAcrossPages ==
    /\ fn = "get_all_org_repos"
    /\ l_pc = "done"
    /\ <<2, 1>> \in ServedKeys
    /\ served[<<2, 1>>].body = ShortPage
    /\ \E i \in 1..Len(all_repos) : all_repos[i].src = <<2, 1, 2>>
    /\ Len(all_repos) >= 2

\* C2: for every limit L >= 0, get_all_org_repos(limit=L) returns exactly the
\* first min(L, N) records of the N that the same listing yields without a limit.
LimitYieldsFirstMin ==
    fn = "get_all_org_repos" /\ call = 2 /\ l_pc = "done"
        => first_result = SubSeq(all_repos, 1, Min(first_limit.val, Len(all_repos)))

\* C3: once the number of collected repositories has reached the limit, no
\* further listing request is issued.
NoRequestOnceLimitReached ==
    fn = "get_all_org_repos" /\ ~ limit.isNone
        => \A i \in 1..Len(reqlog) : reqlog[i].collected < limit.val

\* the step issued a request
Requested == Len(reqlog') = Len(reqlog) + 1

\* C4: when handle_rate_limiting signals a pause for a response, nothing of the
\* response is added and the page counter stays, and the next request issued is
\* for the same endpoint and the same page.
PauseRetriesSamePage ==
    [][/\ Requested /\ Last(reqlog').paused
          => /\ all_repos' = all_repos
             /\ all_branches' = all_branches
             /\ page' = page
             /\ endpoint' = endpoint
       /\ Requested /\ reqlog # <<>> /\ Last(reqlog).paused
          => /\ Last(reqlog').endpoint = Last(reqlog).endpoint
             /\ Last(reqlog').page = Last(reqlog).page]_vars

\* C4 witness: a page was asked for twice because the first response signalled
\* a pause, and its entities were added once.
PageRetriedAfterPause ==
    /\ Len(reqlog) = 2
    /\ reqlog[1].paused
    /\ ~ reqlog[2].paused
    /\ reqlog[2].size = Len(ShortPage)
    /\ \/ Len(all_branches) = Len(ShortPage)
       \/ Len(all_repos) = Cardinality({ShortPage[i].name : i \in 1..Len(ShortPage)})

\* the response was received as a page: no pause, no exception, status 200
ReceivedPage(q) == ~ q.paused /\ ~ q.raised /\ q.status_code = 200

\* C5 as stated: after a received page of get_all_org_repos that carries no
\* rel="next", or has fewer entries than per_page, or is empty, no further
\* page of that endpoint is requested.
AnyEndConditionEndsPagination ==
    fn = "get_all_org_repos" =>
        \A i \in 1..Len(reqlog) : \A j \in 1..Len(reqlog) :
            /\ i < j
            /\ ReceivedPage(reqlog[i])
            /\ (reqlog[i].link # "next" \/ reqlog[i].size < per_page \/ reqlog[i].size = 0)
            => reqlog[j].endpoint # reqlog[i].endpoint

\* C5 amended: after a received page that is empty, or whose Link header
\* carries no rel="next", or that has no Link header and was returned by the
\* API with fewer entries than per_page, no further page of that endpoint is
\* requested.
LinkThenSizeEndsPagination ==
    fn = "get_all_org_repos" =>
        \A i \in 1..Len(reqlog) : \A j \in 1..Len(reqlog) :
            /\ i < j
            /\ ReceivedPage(reqlog[i])
            /\ \/ reqlog[i].size = 0
               \/ reqlog[i].link = "last"
               \/ reqlog[i].link = "absent" /\ reqlog[i].size < per_page
            => reqlog[j].endpoint # reqlog[i].endpoint

\* C5 witness: the first endpoint ended on a short page without a Link header
\* and the second endpoint was then asked for its first page.
ShortPageEndedEndpoint ==
    /\ fn = "get_all_org_repos"
    /\ Len(reqlog) = 2
    /\ ReceivedPage(reqlog[1])
    /\ reqlog[1].link = "absent"
    /\ reqlog[1].size = Len(ShortPage)
    /\ reqlog[2].endpoint = 2
    /\ reqlog[2].page = 1

-----------------------------------------------------------------------------
(* Properties of find_file_in_branch, get_python_file_content and
   get_python_files_alternative, checked under SpecFile *)

\* the file asked for exists: the API answers 200 with base64 content that
\* decodes
FileExists ==
    /\ remote.file.status_code = 200
    /\ remote.file.body.json = "object"
    /\ remote.file.body.encoding = "base64"
    /\ DecodedContent(remote.file.body).ok

\* the root directory exists and lists at least one .py file
RootHasPythonFiles ==
    /\ remote.root.status_code = 200
    /\ remote.root.json = "array"
    /\ PythonFilesOf(remote.root.items) # <<>>

\* the call reported the file as absent, or the directory as empty
ReportedAbsent == f_result = NoneValue \/ f_result = ListValue(<<>>)

\* C9: a call of find_file_in_branch, get_python_file_content or
\* get_python_files_alternative never returns on a response for which
\* handle_rate_limiting signalled a pause (the request is issued again), so a
\* file or root directory that exists is never reported as absent or empty
\* once a response for it has arrived.
QuotaNeverSurfacedAsAbsence ==
    f_pc = "returned" /\ f_log # <<>> =>
        /\ ~ Last(f_log).paused
        /\ f_fn \in {"find_file_in_branch", "get_python_file_content"} /\ FileExists
               => ~ ReportedAbsent
        /\ f_fn = "get_python_files_alternative" /\ RootHasPythonFiles
               => ~ ReportedAbsent

-----------------------------------------------------------------------------
(* Properties of get_branch_tree, checked under SpecTree *)

\* the attempts that ended in the except clause of the loop
RetriesCounted == Cardinality({i \in 1..Len(t_log) : t_log[i].retried})

\* the tree request of the current attempt was answered (no pause) in a way
\* that makes the resolver take the fallback walk
TreeAnswerCallsForWalk ==
    /\ t_log # <<>>
    /\ Last(t_log).req = "tree"
    /\ ~ Last(t_log).paused
    /\ \/ Last(t_log).failed
       \/ Last(t_log).status_code # 200
       \/ Last(t_log).json = "malformed"
       \/ Last(t_log).truncated

\* C10: a pause signalled by handle_rate_limiting consumes none of the
\* max_retries attempts: while the loop runs, the attempt number is the number
\* of attempts that failed, and the fallback walk is taken only on an answer
\* to the tree request that calls for it or after max_retries failed attempts.
PausesNotCountedAsRetries ==
    /\ t_pc \in {"ref", "tree"} => attempt = RetriesCounted
    /\ t_pc = "walk" => TreeAnswerCallsForWalk \/ RetriesCounted >= max_retries

\* handle_rate_limiting returned False for the tree response of the entry
TreeAnswered(e) == e.req = "tree" /\ ~ e.failed /\ ~ e.paused /\ ~ e.raised

\* the tree response of the entry has a non-success status or is truncated
TreeUnusable(e) == e.req = "tree" /\ ~ e.failed /\ (e.status_code # 200 \/ e.truncated)

\* the fallback walk is what follows entry i of the log
WalkFollows(i) ==
    IF i = Len(t_log) THEN t_pc = "walk" ELSE t_log[i + 1].req = "root"

\* what get_python_files_alternative yields for the root request of entry e
WalkResultFor(e) ==
    IF e.failed THEN Returns(ListValue(<<>>))
    ELSE get_python_files_alternative(remote, RateLimitOutcome(FALSE, e.paused, 0),
                                      json_error)

\* a value returned by get_branch_tree after a tree response is the filtered
\* list of a complete tree received with status 200, and one returned after
\* the root request is the value of the fallback walk
ReturnedFromTreeOrWalk ==
    t_pc = "returned" /\ t_log # <<>> =>
        /\ Last(t_log).req = "tree"
              => Last(t_log).status_code = 200 /\ ~ Last(t_log).truncated
        /\ Last(t_log).req = "root" => t_result = WalkResultFor(Last(t_log)).value

\* C11 as stated: whenever the tree response has a non-success status or is
\* truncated, the fallback walk follows and its result is the value returned;
\* no truncated tree listing is returned directly.
UnusableTreeAlwaysWalks ==
    /\ \A i \in 1..Len(t_log) : TreeUnusable(t_log[i]) => WalkFollows(i)
    /\ ReturnedFromTreeOrWalk

\* C11 amended: whenever a tree response for which handle_rate_limiting
\* returned False has a non-success status or is truncated, the fallback walk
\* follows and its result is the value returned; no truncated tree listing is
\* returned directly. (A tree response that signals a pause is followed by the
\* next attempt, whatever its status and truncation flag.)
AnsweredUnusableTreeWalks ==
    /\ \A i \in 1..Len(t_log) :
          TreeUnusable(t_log[i]) /\ TreeAnswered(t_log[i]) => WalkFollows(i)
    /\ ReturnedFromTreeOrWalk

\* C11 witness: a truncated tree was received with status 200 and without a
\* pause, the root request followed, and the walk returned files.
TruncatedTreeWalked ==
    /\ t_pc = "returned"
    /\ Len(t_log) = 3
    /\ TreeAnswered(t_log[2])
    /\ t_log[2].status_code = 200
    /\ t_log[2].truncated
    /\ t_log[3].req = "root"
    /\ t_result.kind = "list"
    /\ t_result.files # <<>>

\* handle_rate_limiting returned False for the branch response of the entry
RefAnswered(e) == e.req = "ref" /\ ~ e.failed /\ ~ e.paused /\ ~ e.raised

\* C12: when the branch-reference request is answered with a non-success
\* status, the fallback walk follows and its result is what get_branch_tree
\* returns.
RefNonSuccessWalks ==
    \A i \in 1..Len(t_log) :
        RefAnswered(t_log[i]) /\ t_log[i].status_code # 200
            => /\ WalkFollows(i)
               /\ t_pc = "returned"
                    => /\ Last(t_log).req = "root"
                       /\ t_result = WalkResultFor(Last(t_log)).value

\* the requests of the log made for req
RequestsFor(req) == {i \in 1..Len(t_log) : t_log[i].req = req}

\* the step made a branch-reference request that failed in the network
RefFailedInStep ==
    /\ Len(t_log') = Len(t_log) + 1
    /\ Last(t_log').req = "ref"
    /\ Last(t_log').failed

\* the failed attempts after the step
RetriesCountedAfterStep ==
    Cardinality({i \in 1..Len(t_log') : t_log'[i].retried})

\* C13: a network failure of the branch-reference request is retried with
\* exponential backoff: at most 3 reference requests are issued, the wait
\* after the k-th failed attempt is 2^(k-1) seconds, and once the attempts are
\* exhausted the fallback walk is invoked, exactly once.
RefFailuresBackOffExponentially ==
    /\ [](/\ Cardinality(RequestsFor("ref")) <= max_retries
          /\ Cardinality(RequestsFor("root")) <= 1
          /\ RetriesCounted >= max_retries /\ t_pc \notin {"returned", "raised"}
                => t_pc = "walk")
    /\ [][RefFailedInStep
            => /\ now' - now = Backoff(RetriesCountedAfterStep - 1)
               /\ t_pc' = IF RetriesCountedAfterStep < max_retries THEN "ref" ELSE "walk"]_vars

\* C14: every call of get_branch_tree ends by returning a list: it never
\* raises, it issues at most 3 reference requests and at most 3 tree
\* requests, and the fallback walk makes one root request and ends the call
\* without a further reference or tree request.
TreeCallEndsWithList ==
    /\ t_pc # "raised"
    /\ t_pc = "returned" => t_result.kind = "list"
    /\ Cardinality(RequestsFor("ref")) <= max_retries
    /\ Cardinality(RequestsFor("tree")) <= max_retries
    /\ Cardinality(RequestsFor("root")) <= 1
    /\ Len(t_log) <= 2 * max_retries + 1
    /\ \A i \in RequestsFor("root") : i = Len(t_log) /\ t_pc = "returned"

-----------------------------------------------------------------------------
(* Properties of find_file_in_branch, checked under SpecFile *)

\* find_file_in_branch was called and a response arrived
FindFileAnswered ==
    f_fn = "find_file_in_branch" /\ f_pc # "call" /\ f_log # <<>>

\* C15: find_file_in_branch returns the decoded text when the lookup succeeds
\* (status 200, base64 content that decodes), with bytes that are not valid
\* UTF-8 replaced by U+FFFD, and returns None, without raising, for every
\* non-success status.
FindFileDecodesOrReturnsNone ==
    FindFileAnswered =>
        /\ FileExists
              => /\ f_pc = "returned"
                 /\ f_result = TextValue(DecodedContent(remote.file.body).text)
        /\ FileExists /\ remote.file.body.content = Content(<<"/", "w", "=", "=">>)
              => f_result = TextValue(<<ReplacementChar>>)
        /\ remote.file.status_code # 200
              => f_pc = "returned" /\ f_result = NoneValue

\* a request of the call failed to connect or timed out (nothing was logged),
\* or the body that came back was not a JSON object
FileFault ==
    \/ f_log = <<>>
    \/ /\ ~ Last(f_log).raised
       /\ ~ Last(f_log).paused
       /\ Last(f_log).status_code = 200
       /\ Last(f_log).json # "object"

\* the absent result of the function called: None, or no files
AbsentResult ==
    IF f_fn = "get_python_files_alternative" THEN ListValue(<<>>) ELSE NoneValue

\* C16: no fault in a unit of work leaves it as an exception: a call in which
\* a request failed to connect or a body was malformed ends by returning the
\* absent result, so that find_python_project_files, which wraps no call in a
\* try block, goes on with the next file, branch or repository
FaultsYieldAbsentResult ==
    f_pc # "call" /\ FileFault => f_pc = "returned" /\ f_result = AbsentResult

-----------------------------------------------------------------------------
(* Properties of parse_requirement_line and of the requirements loop,      *)
(* checked under SpecParse                                                 *)

\* the lengths of the prefixes S of text such that S holds no '#' and text is
\* S, then whitespace, then '#', then a comment
CommentedPrefixes(text) ==
    {j \in 0..Len(text) :
        /\ \A k \in 1..j : text[k] # "#"
        /\ \E i \in (j + 2)..Len(text) :
              /\ text[i] = "#"
              /\ \A k \in (j + 1)..(i - 1) : text[k] \in Whitespace}

\* two results of parse_requirement_line with the same name and version
SameNameAndVersion(a, b) ==
    IF a = NoneValue \/ b = NoneValue THEN a = b
    ELSE a.name = b.name /\ a.version = b.version

\* C17: parse_requirement_line strips inline comments before parsing: for a
\* line S followed by whitespace, '#' and a comment, S holding no '#', the
\* name and the version returned are those returned for S alone, and
\* 'requests==2.31.0  # pinned' gives name 'requests', version '==2.31.0'
InlineCommentStripped ==
    p_pc = "parsed" =>
        /\ \A j \in CommentedPrefixes(requirements_content) :
              SameNameAndVersion(package_info,
                  parse_requirement_line(SubSeq(requirements_content, 1, j)))
        /\ requirements_content = Line_pinned =>
              /\ package_info # NoneValue
              /\ package_info.name = SubSeq(Line_pinned, 1, 8)
              /\ package_info.version = SubSeq(Line_pinned, 9, 16)

\* C17 witness: the pinned line with its comment was parsed, and the name
\* came out as 'requests'
PinnedLineParsed ==
    /\ p_pc = "parsed"
    /\ requirements_content = Line_pinned
    /\ 16 \in CommentedPrefixes(requirements_content)
    /\ package_info # NoneValue
    /\ package_info.name = <<"r", "e", "q", "u", "e", "s", "t", "s">>

\* text begins with a VCS/URL scheme
BeginsWithScheme(text) ==
    startswith(text, Str_git_plus) \/ startswith(text, Str_http)

\* the positions at which an '#egg=NAME' fragment with a non-empty NAME free
\* of whitespace and of '#' ends text
EggFragments(text) ==
    {i \in 1..(Len(text) - Len(Str_egg)) :
        /\ SubSeq(text, i, i + Len(Str_egg) - 1) = Str_egg
        /\ \A k \in (i + Len(Str_egg))..Len(text) :
              text[k] \notin Whitespace \cup {"#"}}

\* C18: for a line that begins with a VCS/URL scheme and carries an
\* '#egg=NAME' fragment, parse_requirement_line returns name NAME with the
\* version 'git'; 'git+https://example.com/x.git#egg=foo' gives name 'foo',
\* version 'git'
EggFragmentNamesPackage ==
    p_pc = "parsed" /\ BeginsWithScheme(requirements_content) =>
        \A i \in EggFragments(requirements_content) :
            /\ package_info # NoneValue
            /\ package_info.name = From(requirements_content, i + Len(Str_egg))
            /\ package_info.version = Str_git

\* C19: DependencySpec.name is never empty: every record that
\* parse_requirement_line returned for a non-empty, non-comment line of the
\* requirements file and that the loop stored in requirements_packages has a
\* name of at least one character
StoredNamesNotEmpty ==
    p_pc = "stored" =>
        \A i \in 1..Len(packages) : Len(packages[i].name) >= 1

\* the versions that stand for "no constraint given"
SentinelVersions == {Str_git, Str_url, Str_latest}

\* C20: parse_requirement_line is idempotent under reconstruction: when the
\* parse of a line yields a name and a version constraint, parsing the name
\* followed by the constraint yields the same name and the same constraint
ReparseRecoversNameAndConstraint ==
    /\ p_pc = "parsed"
    /\ package_info # NoneValue
    /\ package_info.version \notin SentinelVersions
    => LET again ==
               parse_requirement_line(package_info.name \o package_info.version)
       IN  /\ again # NoneValue
           /\ again.name = package_info.name
           /\ again.version = package_info.version

\* text holds one of the version operators
HoldsOperator(text) == \E k \in 1..Len(operators) : find(text, operators[k]) # 0

\* C21: for a line that is not a VCS/URL requirement the operators are tried
\* in the order [==, >=, <=, >, <, ~=, !=]: the first of the list found in
\* the line splits it into a name that holds no version operator and a
\* constraint that starts with that operator, and a line without operator
\* gives the bare name with version 'latest'
OperatorSplitsNameFromConstraint ==
    /\ p_pc = "parsed"
    /\ package_info # NoneValue
    /\ ~ BeginsWithScheme(package_info.raw)
    => IF HoldsOperator(package_info.raw)
       THEN /\ ~ HoldsOperator(package_info.name)
            /\ startswith(package_info.version,
                          operators[FirstOperator(package_info.raw)])
       ELSE /\ package_info.name = package_info.raw
            /\ package_info.version = Str_latest

-----------------------------------------------------------------------------
(* Properties of extract_imports_from_python_content, checked under        *)
(* SpecImport                                                              *)

\* the source text of the two lines 'import os, sys' and
\* 'from numpy.linalg import inv'
TwoImportLines == JoinLines(<<Stmt_import_os_sys, Stmt_from_numpy_linalg>>)

\* {('os', True), ('sys', True), ('numpy', False)}
OsSysNumpy ==
    {<<<<"o", "s">>, TRUE>>, <<<<"s", "y", "s">>, TRUE>>,
     <<<<"n", "u", "m", "p", "y">>, FALSE>>}

\* C22: for the source text of the lines 'import os, sys' and
\* 'from numpy.linalg import inv' the result is exactly {('os', True),
\* ('sys', True), ('numpy', False)}; and every pair returned is (m, m is in
\* std_lib), m holds no dot, and no name occurs in two pairs
ImportsClassified ==
    i_pc = "returned" =>
        /\ \A pair \in imports :
              /\ pair[2] = (pair[1] \in std_lib)
              /\ \A n \in 1..Len(pair[1]) : pair[1][n] # "."
        /\ \A p, q \in imports : p[1] = q[1] => p = q
        /\ py_content \in
             {TwoImportLines,
              JoinLines(<<Stmt_from_numpy_linalg, Stmt_import_os_sys>>)}
           => imports = OsSysNumpy

\* C22 witness: the two lines were scanned, and numpy came out as a package
\* outside the standard library
TwoImportLinesScanned ==
    /\ i_pc = "returned"
    /\ py_content = TwoImportLines
    /\ <<<<"n", "u", "m", "p", "y">>, FALSE>> \in imports
    /\ Cardinality(imports) = 3

\* the lines of py_content
SourceLines == split(py_content, <<"\n">>)

\* C23: for a comma-separated multi-import 'import A1, ..., An', each Ai
\* dotted or aliased or plain, the result holds the top-level segment of
\* every Ai: here for the lines 'import os.path, sys',
\* 'import numpy as np, sys', 'import sys, numpy.linalg' and 'import os ,sys'
MultiImportNamesAllExtracted ==
    i_pc = "returned" =>
        \A n \in 1..Len(SourceLines) :
            /\ SourceLines[n] \in {Stmt_import_dotted_list, Stmt_import_tight_list,
                                   Stmt_import_os_sys}
               => <<<<"o", "s">>, TRUE>> \in imports
            /\ SourceLines[n] \in {Stmt_import_alias_list,
                                   Stmt_import_list_dotted_last}
               => <<<<"n", "u", "m", "p", "y">>, FALSE>> \in imports
            /\ SourceLines[n] \in {Stmt_import_dotted_list, Stmt_import_tight_list,
                                   Stmt_import_os_sys, Stmt_import_alias_list,
                                   Stmt_import_list_dotted_last}
               => <<<<"s", "y", "s">>, TRUE>> \in imports

-----------------------------------------------------------------------------
(* Properties of find_python_project_files of fr10.py, checked under       *)
(* SpecAgg and SpecSteady                                                  *)

\* at least one of the three manifest flags of the branch is true
AnyManifestFlag ==
    \/ branch_data.has_requirements
    \/ branch_data.has_pyproject
    \/ branch_data.has_setup_py

\* C24: for every branch the import scan is run if and only if the language
\* of the repository is 'Python' or one of the three manifest flags of the
\* branch is true, and one scan requests the content of at most 50 files
ScanOnlyForPythonBranchesAndBounded ==
    /\ a_pc \in {"branch", "returned"} /\ Len(a_log) = 3
       => (scan.ran <=> (language = "Python" \/ AnyManifestFlag))
    /\ a_pc = "raised" /\ Len(a_log) = 3 /\ scan.ran
       => (language = "Python" \/ AnyManifestFlag)
    /\ scan # <<>> => scan.requested <= 50

\* C24 witness: a branch of a repository in another language was scanned
\* because of its setup.py, and the scan asked for the content of 50 files
ScanAskedForFiftyFiles ==
    /\ a_pc = "returned"
    /\ Len(a_log) = 3
    /\ language = "Go"
    /\ branch_data.has_setup_py
    /\ ~ branch_data.has_requirements
    /\ scan.ran
    /\ scan.requested = 50

\* the branch records of repo_data['branches']
RetainedBranches == {repo_branches[n] : n \in 1..Len(repo_branches)}

\* the record data has a manifest flag true or a non-empty import list
ManifestOrImports(data) ==
    \/ data.has_requirements
    \/ data.has_pyproject
    \/ data.has_setup_py
    \/ data.python_imports # {}

\* C25: a branch record is in the list returned if and only if the branch
\* has a manifest flag true or a non-empty import list, and a repository
\* record if and only if it has a retained branch: no repository returned
\* has an empty 'branches' list, and has_python_files is true exactly when
\* 'branches' is not empty, whatever the branches checked before and after
\* the retained one
RetainedIffManifestOrImports ==
    /\ a_pc \in {"branch", "returned"} /\ Len(a_log) = 3
       => (branch_data \in RetainedBranches <=> ManifestOrImports(branch_data))
    /\ \A n \in 1..Len(repo_branches) : ManifestOrImports(repo_branches[n])
    /\ has_python_files <=> repo_branches # <<>>
    /\ a_pc = "returned" => (python_repos # <<>> <=> repo_branches # <<>>)
    /\ \A n \in 1..Len(python_repos) :
          /\ python_repos[n].branches # <<>>
          /\ python_repos[n].branches = repo_branches
          /\ python_repos[n].has_python_files

\* C25 witness: a repository of two branches was returned with one branch
\* record: the first branch was retained for its imports alone, and the
\* second, checked after it, had neither manifest nor import and was left
\* out
BranchRetainedForImports ==
    /\ a_pc = "returned"
    /\ Len(a_log) = 3
    /\ scan.ran
    /\ ~ ManifestOrImports(branch_data)
    /\ branch_data \notin RetainedBranches
    /\ Len(python_repos) = 1
    /\ Len(python_repos[1].branches) = 1
    /\ ~ python_repos[1].branches[1].has_requirements
    /\ ~ python_repos[1].branches[1].has_pyproject
    /\ ~ python_repos[1].branches[1].has_setup_py
    /\ python_repos[1].branches[1].python_imports # {}

\* the lookup logged as e succeeded: status 200 with base64 content that
\* decodes
LookupSucceeded(e) ==
    /\ e.data.status_code = 200
    /\ e.data.body.json = "object"
    /\ e.data.body.encoding = "base64"
    /\ DecodedContent(e.data.body).ok

\* the presence flag of branch_data for the file of ManifestFiles
ManifestFlag(file) ==
    CASE file = "requirements.txt" -> branch_data.has_requirements
      [] file = "pyproject.toml" -> branch_data.has_pyproject
      [] file = "setup.py" -> branch_data.has_setup_py

\* C27: a manifest presence flag of a branch is true exactly when the lookup
\* of that file succeeded (status 200 with decodable base64 content), also
\* when the decoded content is the empty string; the lookups that ended in
\* a rate-limit pause are left aside
FlagIffLookupSucceeded ==
    a_pc \in {"scan", "branch", "returned"} /\ Len(a_log) = 3 =>
        \A n \in 1..3 :
            ~ a_log[n].paused =>
                (ManifestFlag(a_log[n].file) <=> LookupSucceeded(a_log[n]))

\* text begins with 'git+', 'http://' or 'https://'
BeginsWithVcsOrUrl(text) ==
    \/ startswith(text, Str_git_plus)
    \/ startswith(text, Str_http \o <<":", "/", "/">>)
    \/ startswith(text, Str_http \o <<"s", ":", "/", "/">>)

\* C26: the versions 'git' and 'url' go only to lines that begin with a
\* VCS/URL scheme (git+, http://, https://); 'httpx==0.24.0', whose name
\* merely begins with 'http', is parsed by the operator scan into name
\* 'httpx' and version '==0.24.0'
SentinelOnlyForSchemes ==
    p_pc = "parsed" /\ package_info # NoneValue =>
        /\ package_info.version \in {Str_git, Str_url}
              => BeginsWithVcsOrUrl(package_info.raw)
        /\ requirements_content = Line_httpx
              => /\ package_info.name = SubSeq(Line_httpx, 1, 5)
                 /\ package_info.version = SubSeq(Line_httpx, 6, 13)

-----------------------------------------------------------------------------
(* Properties of get_python_files_alternative, checked under SpecFile *)

\* path is a file of the root, or a direct child of an allow-listed directory
RootOrAllowListedChild(path) ==
    LET slashes == {n \in 1..Len(path) : path[n] = "/"}
    IN  \/ slashes = {}
        \/ /\ Cardinality(slashes) = 1
           /\ \E n \in slashes : SubSeq(path, 1, n - 1) \in important_dirs

\* C28: the list the fallback walk returns holds each path at most once,
\* also when the root listing holds 'src', 'app' or 'lib' and these three
\* directories are probed because fewer than 5 files were found; and every
\* path returned is a root file or a direct child of one of the six
\* allow-listed directories
WalkListsEachPathOnce ==
    f_fn = "get_python_files_alternative" /\ f_pc = "returned" =>
        /\ \A m, n \in 1..Len(f_result.files) :
              f_result.files[m].path = f_result.files[n].path => m = n
        /\ \A n \in 1..Len(f_result.files) :
              RootOrAllowListedChild(f_result.files[n].path)

-----------------------------------------------------------------------------
(* Pagination of the user/repos endpoint, checked under SpecListing *)

\* C29: pagination of user/repos does not stop while the API may have more
\* pages: after a received page of per_page entries without Link header the
\* next page of the endpoint is requested, however many of the entries the
\* filter on the owner leaves (no limit given)
FullUserPageContinues ==
    fn = "get_all_org_repos" /\ limit.isNone =>
        \A i \in 1..Len(reqlog) :
            /\ IsUserRepos(reqlog[i].endpoint)
            /\ ReceivedPage(reqlog[i])
            /\ reqlog[i].size = per_page
            /\ reqlog[i].link = "absent"
            => IF i < Len(reqlog)
               THEN /\ reqlog[i + 1].endpoint = reqlog[i].endpoint
                    /\ reqlog[i + 1].page = reqlog[i].page + 1
               ELSE /\ l_pc # "done"
                    /\ l_pc = "loop" => page = reqlog[i].page + 1

-----------------------------------------------------------------------------
(* The repository loop of prototype.py, checked under SpecProto *)

\* the contents requests of repository repo_name that were not taken for a
\* rate-limit pause
RequestsNotPaused(repo_name) ==
    {k \in 1..Len(q_log) : q_log[k].repo = repo_name /\ q_log[k].taken # "paused"}

\* C30: in find_python_project_files of prototype.py a repository whose
\* contents request hits the rate limit is asked for again after the wait:
\* when the function returns, every repository of the list has a contents
\* request that was not a rate-limit pause, and a paused request is followed
\* by a request for the same repository.
PausedRepositoryRetried ==
    /\ q_pc = "returned" =>
           \A i \in 1..Len(q_repos) : RequestsNotPaused(q_repos[i]) # {}
    /\ \A k \in 1..Len(q_log) :
           q_log[k].taken = "paused" /\ k < Len(q_log)
               => q_log[k + 1].repo = q_log[k].repo

====
